---- MODULE Spec2Model ----
(***************************************************************************)
(* Model of the child-list scheduler of views_rs and of the reference      *)
(* bookkeeping it drives: the extent descriptors (ExtentUpdate and the     *)
(* types nested in it), their validation, their reference queries and      *)
(* their index rewrites, and the ChildrenScheduler that validates, queues  *)
(* and later resolves Push / Insert / Move / Delete operations.            *)
(*                                                                         *)
(* Indices are 0-based as in the source; TLA+ sequences are 1-based, so    *)
(* element i of a Vec is seq[i + 1].                                       *)
(***************************************************************************)
EXTENDS Integers, Sequences, FiniteSets, TLC

\* ----- bounds -----
\* the views built before any operation: view 1 is the root, view k + 1 is
\* built with view k's scheduler as its parent scheduler
ChainLen == 3
\* number of views that can be built for Push and Insert operations
MaxChildren == 3
\* number of operations accepted in one run
MaxOps == 4
\* longest operation queue of one scheduler between two resolves
MaxQueue == 2
\* largest Id(n) a freshly built descriptor uses
MaxRefId == 1

Views == 1..(ChainLen + MaxChildren)
Root == 1
\* parent_scheduler = None
NoParent == 0

\* ----- results -----
Ok == [kind |-> "Ok"]
Err(e) == [kind |-> "Err", err |-> e]
\* a panic of the running program (index out of bounds, overflow check)
Panic(why) == [kind |-> "Panic", why |-> why]

\* ----- descriptor constructors -----
Prev == [tag |-> "Prev"]
Id(n) == [tag |-> "Id", id |-> n]
Anchor(r) == [tag |-> "Anchor", val |-> [ref_view |-> r]]
SetPos == [tag |-> "Set"]
SetSize == [tag |-> "Set"]
Relative(r) == [tag |-> "Relative", val |-> r]
SizeStretch(p1, p2) == [tag |-> "Stretch", val |-> [pos1 |-> p1, pos2 |-> p2]]
Stretch(p1, p2) == [extent_type |-> [tag |-> "Stretch", val |-> [pos1 |-> p1, pos2 |-> p2]]]
Locate(p, s) == [extent_type |-> [tag |-> "Locate", val |-> [pos |-> p, size |-> s]]]
Ratio(p) == [extent_type |-> [tag |-> "Ratio", val |-> [pos |-> p]]]

\* ----- descriptor operations, innermost type first -----
\* RefView::validate that also accepts Id(len)
RefView_validate_OffByOne(self, len) ==
    IF self.tag = "Id"
    THEN IF self.id > len THEN Err([tag |-> "InvalidId", a |-> self.id, b |-> len])
                          ELSE Ok
    ELSE IF len = 0 THEN Err([tag |-> "NoPrev"]) ELSE Ok

\* RefView::validate: Id(index) needs index < siblings.len(), Prev needs a
\* non-empty sibling list
RefView_validate(self, len) ==
    IF self.tag = "Id"
    THEN IF self.id >= len THEN Err([tag |-> "InvalidId", a |-> self.id, b |-> len])
                           ELSE Ok
    ELSE IF len = 0 THEN Err([tag |-> "NoPrev"]) ELSE Ok

\* RefView::check_id_range with the lower bound of the range left out
RefView_check_id_range_OpenLow(self, a, b) ==
    IF self.tag = "Id"
    THEN IF a < self.id /\ self.id < b THEN TRUE ELSE FALSE
    ELSE FALSE

\* RefView::check_id_range: an Id inside the half-open range a..b
RefView_check_id_range(self, a, b) ==
    IF self.tag = "Id"
    THEN IF a <= self.id /\ self.id < b THEN TRUE ELSE FALSE
    ELSE FALSE

\* RefView::check_id: exactly Id(id)
RefView_check_id(self, id) ==
    IF self.tag = "Id"
    THEN IF id = self.id THEN TRUE ELSE FALSE
    ELSE FALSE

\* RefView::check_prev: the reference is Prev
RefView_check_prev(self) ==
    IF self.tag = "Prev" THEN TRUE ELSE FALSE

\* RefView::update_insert: an Id at or after the insertion point moves up
RefView_update_insert(self, pos) ==
    IF self.tag = "Id"
    THEN IF self.id >= pos THEN [self EXCEPT !.id = @ + 1] ELSE self
    ELSE self

\* RefView::update_move that shifts the ids in between and leaves Id(from)
RefView_update_move_NoRetarget(self, from, to) ==
    IF self.tag = "Id"
    THEN IF from > to
         THEN IF self.id < from /\ self.id >= to
              THEN [self EXCEPT !.id = @ + 1] ELSE self
         ELSE IF self.id > from /\ self.id <= to
              THEN [self EXCEPT !.id = @ - 1] ELSE self
    ELSE self

\* RefView::update_move: the moved id follows the move, the ids between shift
RefView_update_move(self, from, to) ==
    IF self.tag = "Id"
    THEN IF self.id = from
         THEN [self EXCEPT !.id = to]
         ELSE IF from > to
              THEN IF self.id < from /\ self.id >= to
                   THEN [self EXCEPT !.id = @ + 1] ELSE self
              ELSE IF self.id > from /\ self.id <= to
                   THEN [self EXCEPT !.id = @ - 1] ELSE self
    ELSE self

\* RefView::update_delete: an Id after the deleted position moves down
RefView_update_delete(self, pos) ==
    IF self.tag = "Id"
    THEN IF self.id > pos THEN [self EXCEPT !.id = @ - 1] ELSE self
    ELSE self

\* AnchorPoint::validate: the first failing field decides
AnchorPoint_validate(self, len) ==
    RefView_validate(self.ref_view, len)

\* AnchorPoint::check_id_range: true when some field matches
AnchorPoint_check_id_range(self, a, b) ==
    RefView_check_id_range(self.ref_view, a, b)

\* AnchorPoint::check_id: true when some field matches
AnchorPoint_check_id(self, id) ==
    RefView_check_id(self.ref_view, id)

\* AnchorPoint::check_prev: true when some field matches
AnchorPoint_check_prev(self) ==
    RefView_check_prev(self.ref_view)

\* AnchorPoint::update_insert: rewrites each field in place
AnchorPoint_update_insert(self, pos) ==
    [self EXCEPT !.ref_view = RefView_update_insert(self.ref_view, pos)]

\* AnchorPoint::update_move: rewrites each field in place
AnchorPoint_update_move(self, from, to) ==
    [self EXCEPT !.ref_view = RefView_update_move(self.ref_view, from, to)]

\* AnchorPoint::update_delete: rewrites each field in place
AnchorPoint_update_delete(self, pos) ==
    [self EXCEPT !.ref_view = RefView_update_delete(self.ref_view, pos)]

\* PositionType::validate: dispatches on the variant
PositionType_validate(self, len) ==
    CASE self.tag = "Anchor" -> AnchorPoint_validate(self.val, len)
      [] self.tag = "Set" -> Ok

\* PositionType::check_id_range: dispatches on the variant
PositionType_check_id_range(self, a, b) ==
    CASE self.tag = "Anchor" -> AnchorPoint_check_id_range(self.val, a, b)
      [] self.tag = "Set" -> FALSE

\* PositionType::check_id: dispatches on the variant
PositionType_check_id(self, id) ==
    CASE self.tag = "Anchor" -> AnchorPoint_check_id(self.val, id)
      [] self.tag = "Set" -> FALSE

\* PositionType::check_prev: dispatches on the variant
PositionType_check_prev(self) ==
    CASE self.tag = "Anchor" -> AnchorPoint_check_prev(self.val)
      [] self.tag = "Set" -> FALSE

\* PositionType::update_insert: dispatches on the variant
PositionType_update_insert(self, pos) ==
    CASE self.tag = "Anchor" -> [self EXCEPT !.val = AnchorPoint_update_insert(self.val, pos)]
      [] self.tag = "Set" -> self

\* PositionType::update_move: dispatches on the variant
PositionType_update_move(self, from, to) ==
    CASE self.tag = "Anchor" -> [self EXCEPT !.val = AnchorPoint_update_move(self.val, from, to)]
      [] self.tag = "Set" -> self

\* PositionType::update_delete: dispatches on the variant
PositionType_update_delete(self, pos) ==
    CASE self.tag = "Anchor" -> [self EXCEPT !.val = AnchorPoint_update_delete(self.val, pos)]
      [] self.tag = "Set" -> self

\* ExtentStretch::validate: the first failing field decides
ExtentStretch_validate(self, len) ==
    LET first == PositionType_validate(self.pos1, len)
    IN  IF first.kind = "Err" THEN first
        ELSE PositionType_validate(self.pos2, len)

\* ExtentStretch::check_id_range that looks at pos1 only
ExtentStretch_check_id_range_Pos1Only(self, a, b) ==
    PositionType_check_id_range(self.pos1, a, b)

\* ExtentStretch::check_id_range: true when some field matches
ExtentStretch_check_id_range(self, a, b) ==
    PositionType_check_id_range(self.pos1, a, b) \/ PositionType_check_id_range(self.pos2, a, b)

\* ExtentStretch::check_id: true when some field matches
ExtentStretch_check_id(self, id) ==
    PositionType_check_id(self.pos1, id) \/ PositionType_check_id(self.pos2, id)

\* ExtentStretch::check_prev: true when some field matches
ExtentStretch_check_prev(self) ==
    PositionType_check_prev(self.pos1) \/ PositionType_check_prev(self.pos2)

\* ExtentStretch::update_insert: rewrites each field in place
ExtentStretch_update_insert(self, pos) ==
    [self EXCEPT !.pos1 = PositionType_update_insert(self.pos1, pos), !.pos2 = PositionType_update_insert(self.pos2, pos)]

\* ExtentStretch::update_move: rewrites each field in place
ExtentStretch_update_move(self, from, to) ==
    [self EXCEPT !.pos1 = PositionType_update_move(self.pos1, from, to), !.pos2 = PositionType_update_move(self.pos2, from, to)]

\* ExtentStretch::update_delete: rewrites each field in place
ExtentStretch_update_delete(self, pos) ==
    [self EXCEPT !.pos1 = PositionType_update_delete(self.pos1, pos), !.pos2 = PositionType_update_delete(self.pos2, pos)]

\* SizeType::validate that does not look into a Stretch
SizeType_validate_SkipStretch(self, len) ==
    CASE self.tag = "Relative" -> RefView_validate(self.val, len)
      [] self.tag = "Stretch" -> Ok
      [] self.tag = "Set" -> Ok

\* SizeType::validate: dispatches on the variant
SizeType_validate(self, len) ==
    CASE self.tag = "Relative" -> RefView_validate(self.val, len)
      [] self.tag = "Stretch" -> ExtentStretch_validate(self.val, len)
      [] self.tag = "Set" -> Ok

\* SizeType::check_id_range: dispatches on the variant
SizeType_check_id_range(self, a, b) ==
    CASE self.tag = "Relative" -> RefView_check_id_range(self.val, a, b)
      [] self.tag = "Stretch" -> ExtentStretch_check_id_range(self.val, a, b)
      [] self.tag = "Set" -> FALSE

\* SizeType::check_id: dispatches on the variant
SizeType_check_id(self, id) ==
    CASE self.tag = "Relative" -> RefView_check_id(self.val, id)
      [] self.tag = "Stretch" -> ExtentStretch_check_id(self.val, id)
      [] self.tag = "Set" -> FALSE

\* SizeType::check_prev: dispatches on the variant
SizeType_check_prev(self) ==
    CASE self.tag = "Relative" -> RefView_check_prev(self.val)
      [] self.tag = "Stretch" -> ExtentStretch_check_prev(self.val)
      [] self.tag = "Set" -> FALSE

\* SizeType::update_insert: dispatches on the variant
SizeType_update_insert(self, pos) ==
    CASE self.tag = "Relative" -> [self EXCEPT !.val = RefView_update_insert(self.val, pos)]
      [] self.tag = "Stretch" -> [self EXCEPT !.val = ExtentStretch_update_insert(self.val, pos)]
      [] self.tag = "Set" -> self

\* SizeType::update_move: dispatches on the variant
SizeType_update_move(self, from, to) ==
    CASE self.tag = "Relative" -> [self EXCEPT !.val = RefView_update_move(self.val, from, to)]
      [] self.tag = "Stretch" -> [self EXCEPT !.val = ExtentStretch_update_move(self.val, from, to)]
      [] self.tag = "Set" -> self

\* SizeType::update_delete: dispatches on the variant
SizeType_update_delete(self, pos) ==
    CASE self.tag = "Relative" -> [self EXCEPT !.val = RefView_update_delete(self.val, pos)]
      [] self.tag = "Stretch" -> [self EXCEPT !.val = ExtentStretch_update_delete(self.val, pos)]
      [] self.tag = "Set" -> self

\* ExtentLocate::validate: the first failing field decides
ExtentLocate_validate(self, len) ==
    LET first == PositionType_validate(self.pos, len)
    IN  IF first.kind = "Err" THEN first
        ELSE SizeType_validate(self.size, len)

\* ExtentLocate::check_id_range: true when some field matches
ExtentLocate_check_id_range(self, a, b) ==
    PositionType_check_id_range(self.pos, a, b) \/ SizeType_check_id_range(self.size, a, b)

\* ExtentLocate::check_id that looks at the position only
ExtentLocate_check_id_PosOnly(self, id) ==
    PositionType_check_id(self.pos, id)

\* ExtentLocate::check_id: true when some field matches
ExtentLocate_check_id(self, id) ==
    PositionType_check_id(self.pos, id) \/ SizeType_check_id(self.size, id)

\* ExtentLocate::check_prev: true when some field matches
ExtentLocate_check_prev(self) ==
    PositionType_check_prev(self.pos) \/ SizeType_check_prev(self.size)

\* ExtentLocate::update_insert: pos.update_insert(pos), then size.update_delete(pos)
\* (the source calls update_delete on the size)
ExtentLocate_update_insert(self, pos) ==
    [self EXCEPT !.pos = PositionType_update_insert(self.pos, pos),
                 !.size = SizeType_update_delete(self.size, pos)]

\* ExtentLocate::update_move: rewrites each field in place
ExtentLocate_update_move(self, from, to) ==
    [self EXCEPT !.pos = PositionType_update_move(self.pos, from, to), !.size = SizeType_update_move(self.size, from, to)]

\* ExtentLocate::update_delete: rewrites each field in place
ExtentLocate_update_delete(self, pos) ==
    [self EXCEPT !.pos = PositionType_update_delete(self.pos, pos), !.size = SizeType_update_delete(self.size, pos)]

\* ExtentRatio::validate that does not validate the position
ExtentRatio_validate_Unchecked(self, len) ==
    Ok

\* ExtentRatio::validate: the first failing field decides
ExtentRatio_validate(self, len) ==
    PositionType_validate(self.pos, len)

\* ExtentRatio::check_id_range: true when some field matches
ExtentRatio_check_id_range(self, a, b) ==
    PositionType_check_id_range(self.pos, a, b)

\* ExtentRatio::check_id: true when some field matches
ExtentRatio_check_id(self, id) ==
    PositionType_check_id(self.pos, id)

\* ExtentRatio::check_prev: true when some field matches
ExtentRatio_check_prev(self) ==
    PositionType_check_prev(self.pos)

\* ExtentRatio::update_insert: rewrites each field in place
ExtentRatio_update_insert(self, pos) ==
    [self EXCEPT !.pos = PositionType_update_insert(self.pos, pos)]

\* ExtentRatio::update_move: rewrites each field in place
ExtentRatio_update_move(self, from, to) ==
    [self EXCEPT !.pos = PositionType_update_move(self.pos, from, to)]

\* ExtentRatio::update_delete: rewrites each field in place
ExtentRatio_update_delete(self, pos) ==
    [self EXCEPT !.pos = PositionType_update_delete(self.pos, pos)]

\* ExtentUpdateType::validate: dispatches on the variant
ExtentUpdateType_validate(self, len) ==
    CASE self.tag = "Stretch" -> ExtentStretch_validate(self.val, len)
      [] self.tag = "Locate" -> ExtentLocate_validate(self.val, len)
      [] self.tag = "Ratio" -> ExtentRatio_validate(self.val, len)

\* ExtentUpdateType::check_id_range: dispatches on the variant
ExtentUpdateType_check_id_range(self, a, b) ==
    CASE self.tag = "Stretch" -> ExtentStretch_check_id_range(self.val, a, b)
      [] self.tag = "Locate" -> ExtentLocate_check_id_range(self.val, a, b)
      [] self.tag = "Ratio" -> ExtentRatio_check_id_range(self.val, a, b)

\* ExtentUpdateType::check_id: dispatches on the variant
ExtentUpdateType_check_id(self, id) ==
    CASE self.tag = "Stretch" -> ExtentStretch_check_id(self.val, id)
      [] self.tag = "Locate" -> ExtentLocate_check_id(self.val, id)
      [] self.tag = "Ratio" -> ExtentRatio_check_id(self.val, id)

\* ExtentUpdateType::check_prev: dispatches on the variant
ExtentUpdateType_check_prev(self) ==
    CASE self.tag = "Stretch" -> ExtentStretch_check_prev(self.val)
      [] self.tag = "Locate" -> ExtentLocate_check_prev(self.val)
      [] self.tag = "Ratio" -> ExtentRatio_check_prev(self.val)

\* ExtentUpdateType::update_insert: dispatches on the variant
ExtentUpdateType_update_insert(self, pos) ==
    CASE self.tag = "Stretch" -> [self EXCEPT !.val = ExtentStretch_update_insert(self.val, pos)]
      [] self.tag = "Locate" -> [self EXCEPT !.val = ExtentLocate_update_insert(self.val, pos)]
      [] self.tag = "Ratio" -> [self EXCEPT !.val = ExtentRatio_update_insert(self.val, pos)]

\* ExtentUpdateType::update_move: dispatches on the variant
ExtentUpdateType_update_move(self, from, to) ==
    CASE self.tag = "Stretch" -> [self EXCEPT !.val = ExtentStretch_update_move(self.val, from, to)]
      [] self.tag = "Locate" -> [self EXCEPT !.val = ExtentLocate_update_move(self.val, from, to)]
      [] self.tag = "Ratio" -> [self EXCEPT !.val = ExtentRatio_update_move(self.val, from, to)]

\* ExtentUpdateType::update_delete: dispatches on the variant
ExtentUpdateType_update_delete(self, pos) ==
    CASE self.tag = "Stretch" -> [self EXCEPT !.val = ExtentStretch_update_delete(self.val, pos)]
      [] self.tag = "Locate" -> [self EXCEPT !.val = ExtentLocate_update_delete(self.val, pos)]
      [] self.tag = "Ratio" -> [self EXCEPT !.val = ExtentRatio_update_delete(self.val, pos)]

\* ExtentUpdateSingle::validate: the first failing field decides
ExtentUpdateSingle_validate(self, len) ==
    ExtentUpdateType_validate(self.extent_type, len)

\* ExtentUpdateSingle::check_id_range: true when some field matches
ExtentUpdateSingle_check_id_range(self, a, b) ==
    ExtentUpdateType_check_id_range(self.extent_type, a, b)

\* ExtentUpdateSingle::check_id: true when some field matches
ExtentUpdateSingle_check_id(self, id) ==
    ExtentUpdateType_check_id(self.extent_type, id)

\* ExtentUpdateSingle::check_prev: true when some field matches
ExtentUpdateSingle_check_prev(self) ==
    ExtentUpdateType_check_prev(self.extent_type)

\* ExtentUpdateSingle::update_insert: rewrites each field in place
ExtentUpdateSingle_update_insert(self, pos) ==
    [self EXCEPT !.extent_type = ExtentUpdateType_update_insert(self.extent_type, pos)]

\* ExtentUpdateSingle::update_move: rewrites each field in place
ExtentUpdateSingle_update_move(self, from, to) ==
    [self EXCEPT !.extent_type = ExtentUpdateType_update_move(self.extent_type, from, to)]

\* ExtentUpdateSingle::update_delete: rewrites each field in place
ExtentUpdateSingle_update_delete(self, pos) ==
    [self EXCEPT !.extent_type = ExtentUpdateType_update_delete(self.extent_type, pos)]

\* ExtentUpdate::validate that stops after the x axis
ExtentUpdate_validate_XOnly(self, len) ==
    IF self.x.extent_type.tag = "Ratio" /\ self.y.extent_type.tag = "Ratio"
    THEN Err([tag |-> "BothRatio"])
    ELSE ExtentUpdateSingle_validate(self.x, len)

\* ExtentUpdate::validate: BothRatio when both axes are Ratio, then x, then y
ExtentUpdate_validate(self, len) ==
    IF self.x.extent_type.tag = "Ratio" /\ self.y.extent_type.tag = "Ratio"
    THEN Err([tag |-> "BothRatio"])
    ELSE LET first == ExtentUpdateSingle_validate(self.x, len)
         IN  IF first.kind = "Err" THEN first
             ELSE ExtentUpdateSingle_validate(self.y, len)

\* ExtentUpdate::check_id_range: true when some field matches
ExtentUpdate_check_id_range(self, a, b) ==
    ExtentUpdateSingle_check_id_range(self.x, a, b) \/ ExtentUpdateSingle_check_id_range(self.y, a, b)

\* ExtentUpdate::check_id: true when some field matches
ExtentUpdate_check_id(self, id) ==
    ExtentUpdateSingle_check_id(self.x, id) \/ ExtentUpdateSingle_check_id(self.y, id)

\* ExtentUpdate::check_prev: true when some field matches
ExtentUpdate_check_prev(self) ==
    ExtentUpdateSingle_check_prev(self.x) \/ ExtentUpdateSingle_check_prev(self.y)

\* ExtentUpdate::update_insert: rewrites each field in place
ExtentUpdate_update_insert(self, pos) ==
    [self EXCEPT !.x = ExtentUpdateSingle_update_insert(self.x, pos), !.y = ExtentUpdateSingle_update_insert(self.y, pos)]

\* ExtentUpdate::update_move: rewrites each field in place
ExtentUpdate_update_move(self, from, to) ==
    [self EXCEPT !.x = ExtentUpdateSingle_update_move(self.x, from, to), !.y = ExtentUpdateSingle_update_move(self.y, from, to)]

\* ExtentUpdate::update_delete: rewrites each field in place
ExtentUpdate_update_delete(self, pos) ==
    [self EXCEPT !.x = ExtentUpdateSingle_update_delete(self.x, pos), !.y = ExtentUpdateSingle_update_delete(self.y, pos)]

\* ----- the scheduler's state -----
VARIABLES
    desc,       \* desc[v]: the ExtentUpdate in view v's shared extent controller
    handles,    \* handles[s]: children_extent_controllers of v's scheduler (views)
    queue,      \* queue[s]: the queued operations, first element first
    flags,      \* flags[s]: CHILDREN_QUEUE_ITEM is set
    parent,     \* parent[s]: parent_scheduler (NoParent for None)
    children,   \* children[s]: Children.list, the real child list (views)
    nextView,   \* the next view object to be constructed
    last,       \* the last call made, what it returned and, for a
                \* push_operation, the descriptors it saw before it ran
    nops,       \* number of operations accepted so far
    panicked    \* the program has panicked

vars == <<desc, handles, queue, flags, parent, children, nextView, last, nops, panicked>>

\* View::new_root: Locate(Set(0.0), Set(1.0)) on both axes
RootDesc == [x |-> Locate(SetPos, SetSize), y |-> Locate(SetPos, SetSize)]

\* the references a freshly built descriptor may hold
Refs == {Prev} \cup {Id(n) : n \in 0..MaxRefId}

\* the descriptors handed to Push and Insert: no reference, a reference in the
\* position of a Locate, in the size of a Locate, in a Stretch, and Ratio on
\* both axes
NewDescs ==
    {RootDesc, [x |-> Ratio(SetPos), y |-> Ratio(SetPos)]}
    \cup {[x |-> Locate(Anchor(r), SetSize), y |-> Locate(SetPos, SetSize)] : r \in Refs}
    \cup {[x |-> Stretch(SetPos, SetPos), y |-> Locate(SetPos, Relative(r))] : r \in {Id(0)}}

\* usize subtraction n - 1 as the error payload keeps it: wrapped marks a
\* result that wrapped around to usize::MAX - (v - 1)
UsizeSub1(n) == IF n = 0 THEN [wrapped |-> TRUE, v |-> 1] ELSE [wrapped |-> FALSE, v |-> n - 1]
Usize(n) == [wrapped |-> FALSE, v |-> n]

\* ----- ChildrenScheduleOperation -----
OpPush(v) == [tag |-> "Push", view |-> v]
OpInsert(v, pos) == [tag |-> "Insert", view |-> v, pos |-> pos]
OpMove(from, to) == [tag |-> "Move", from |-> from, to |-> to]
OpDelete(pos) == [tag |-> "Delete", pos |-> pos]

\* the loop with its first sibling skipped
FirstCheckId_SkipFirst(ce, d, lo, hi, id) ==
    LET hits == {i \in (lo + 1)..(hi - 1) : ExtentUpdate_check_id(d[ce[i + 1]], id)}
    IN  IF hits = {} THEN -1 ELSE CHOOSE i \in hits : \A j \in hits : i <= j

\* the loops `for (pos, sibling) in children_extent[lo..hi].iter().enumerate()`
\* of validate: the first index i in lo..hi-1 (0-based) whose handle
\* check_id's id, or -1 when the loop ends without a hit
FirstCheckId(ce, d, lo, hi, id) ==
    LET hits == {i \in lo..(hi - 1) : ExtentUpdate_check_id(d[ce[i + 1]], id)}
    IN  IF hits = {} THEN -1 ELSE CHOOSE i \in hits : \A j \in hits : i <= j

\* ChildrenScheduleOperation::validate against the handle list ce, d being the
\* descriptors of all views; overflow_checks is the build's setting
ChildrenScheduleOperation_validate(op, ce, d, overflow_checks) ==
    LET len == Len(ce) IN
    CASE op.tag = "Push" ->
           LET r == ExtentUpdate_validate(d[op.view], len)
           IN  IF r.kind = "Err" THEN Err([tag |-> "InvalidNew", e |-> r.err]) ELSE Ok
      [] op.tag = "Insert" ->
           IF op.pos > len
           THEN Err([tag |-> "OutOfRange", a |-> op.pos, b |-> Usize(len)])
           ELSE LET r == ExtentUpdate_validate(d[op.view], op.pos)
                IN  IF r.kind = "Err" THEN Err([tag |-> "InvalidNew", e |-> r.err]) ELSE Ok
      [] op.tag = "Move" ->
           IF op.to >= len
           THEN IF len = 0 /\ overflow_checks
                THEN Panic("attempt to subtract with overflow")
                ELSE Err([tag |-> "OutOfRange", a |-> op.to, b |-> UsizeSub1(len)])
           ELSE IF op.from >= len
           THEN Err([tag |-> "InvalidPos", a |-> op.from, b |-> Usize(len)])
           ELSE IF op.to < op.from
           THEN IF op.to = 0 /\ ExtentUpdate_check_prev(d[ce[op.from + 1]])
                THEN Err([tag |-> "NoPrev", a |-> op.from])
                ELSE IF ExtentUpdate_check_id_range(d[ce[op.from + 1]], op.to, op.from)
                THEN Err([tag |-> "InvalidId", a |-> op.from])
                ELSE Ok
           ELSE IF op.to > op.from
           THEN IF op.from = 0 /\ ExtentUpdate_check_prev(d[ce[1 + 1]])
                THEN Err([tag |-> "NoPrev", a |-> 1])
                ELSE LET hit == FirstCheckId(ce, d, op.from + 1, op.to, op.from)
                     IN  IF hit # -1 THEN Err([tag |-> "InvalidId", a |-> hit]) ELSE Ok
           ELSE Ok
      [] op.tag = "Delete" ->
           IF op.pos >= len
           THEN Err([tag |-> "InvalidPos", a |-> op.pos, b |-> Usize(len)])
           ELSE LET hit == FirstCheckId(ce, d, op.pos + 1, len, op.pos)
                IN  IF hit # -1 THEN Err([tag |-> "InvalidId", a |-> hit]) ELSE Ok

\* the controllers of the slice children_extent[lo..] (0-based lo)
HandlesFrom(ce, lo) == {ce[i + 1] : i \in lo..(Len(ce) - 1)}

\* ChildrenScheduleOperation::update whose loops start one handle later
ChildrenScheduleOperation_update_SkipOneMore(op, ce, d) ==
    CASE op.tag = "Push" ->
           [ce |-> Append(ce, op.view), d |-> d]
      [] op.tag = "Insert" ->
           LET iter_pos == IF Len(ce) = op.pos THEN op.pos ELSE op.pos + 1
           IN  [ce |-> ce,
                d |-> [v \in DOMAIN d |->
                         IF v \in HandlesFrom(ce, iter_pos + 1)
                         THEN ExtentUpdate_update_insert(d[v], op.pos) ELSE d[v]]]
      [] op.tag = "Move" ->
           LET min_pos == IF op.from < op.to THEN op.from ELSE op.to
           IN  [ce |-> ce,
                d |-> [v \in DOMAIN d |->
                         IF v \in HandlesFrom(ce, min_pos + 2)
                         THEN ExtentUpdate_update_move(d[v], op.from, op.to) ELSE d[v]]]
      [] op.tag = "Delete" ->
           [ce |-> ce,
            d |-> [v \in DOMAIN d |->
                     IF v \in HandlesFrom(ce, op.pos + 2)
                     THEN ExtentUpdate_update_delete(d[v], op.pos) ELSE d[v]]]

\* ChildrenScheduleOperation::update: the handle list and the descriptors
\* after the operation's index rewrite
ChildrenScheduleOperation_update(op, ce, d) ==
    CASE op.tag = "Push" ->
           [ce |-> Append(ce, op.view), d |-> d]
      [] op.tag = "Insert" ->
           LET iter_pos == IF Len(ce) = op.pos THEN op.pos ELSE op.pos + 1
           IN  [ce |-> ce,
                d |-> [v \in DOMAIN d |->
                         IF v \in HandlesFrom(ce, iter_pos)
                         THEN ExtentUpdate_update_insert(d[v], op.pos) ELSE d[v]]]
      [] op.tag = "Move" ->
           LET min_pos == IF op.from < op.to THEN op.from ELSE op.to
           IN  [ce |-> ce,
                d |-> [v \in DOMAIN d |->
                         IF v \in HandlesFrom(ce, min_pos + 1)
                         THEN ExtentUpdate_update_move(d[v], op.from, op.to) ELSE d[v]]]
      [] op.tag = "Delete" ->
           [ce |-> ce,
            d |-> [v \in DOMAIN d |->
                     IF v \in HandlesFrom(ce, op.pos + 1)
                     THEN ExtentUpdate_update_delete(d[v], op.pos) ELSE d[v]]]

\* Vec::remove and Vec::insert at a 0-based index that is in bounds
VecRemove(list, i) == SubSeq(list, 1, i) \o SubSeq(list, i + 2, Len(list))
VecInsert(list, i, x) == SubSeq(list, 1, i) \o <<x>> \o SubSeq(list, i + 1, Len(list))

\* ChildrenScheduleOperation::resolve whose Move inserts at to before it
\* removes the view from its old place
ChildrenScheduleOperation_resolve_InsertFirst(op, list) ==
    CASE op.tag = "Push" -> [list |-> Append(list, op.view), panic |-> FALSE]
      [] op.tag = "Insert" ->
           IF op.pos > Len(list)
           THEN [list |-> list, panic |-> TRUE]
           ELSE [list |-> VecInsert(list, op.pos, op.view), panic |-> FALSE]
      [] op.tag = "Move" ->
           IF op.from >= Len(list) \/ op.to > Len(list)
           THEN [list |-> list, panic |-> TRUE]
           ELSE LET more == VecInsert(list, op.to, list[op.from + 1])
                IN  [list |-> VecRemove(more, IF op.to <= op.from THEN op.from + 1 ELSE op.from),
                     panic |-> FALSE]
      [] op.tag = "Delete" ->
           IF op.pos >= Len(list)
           THEN [list |-> list, panic |-> TRUE]
           ELSE [list |-> VecRemove(list, op.pos), panic |-> FALSE]

\* ChildrenScheduleOperation::resolve: the child list after the operation, or
\* the panic of Vec::insert / Vec::remove on an index out of bounds
ChildrenScheduleOperation_resolve(op, list) ==
    CASE op.tag = "Push" -> [list |-> Append(list, op.view), panic |-> FALSE]
      [] op.tag = "Insert" ->
           IF op.pos > Len(list)
           THEN [list |-> list, panic |-> TRUE]
           ELSE [list |-> VecInsert(list, op.pos, op.view), panic |-> FALSE]
      [] op.tag = "Move" ->
           IF op.from >= Len(list)
           THEN [list |-> list, panic |-> TRUE]
           ELSE LET rest == VecRemove(list, op.from)
                IN  IF op.to > Len(rest)
                    THEN [list |-> rest, panic |-> TRUE]
                    ELSE [list |-> VecInsert(rest, op.to, list[op.from + 1]), panic |-> FALSE]
      [] op.tag = "Delete" ->
           IF op.pos >= Len(list)
           THEN [list |-> list, panic |-> TRUE]
           ELSE [list |-> VecRemove(list, op.pos), panic |-> FALSE]

\* the loop `for operation in self.queue.drain(..)`: the operations are applied
\* first to last; a panic stops the loop and leaves the rest unapplied
RECURSIVE Drain(_, _, _)
Drain(list, ops, applied) ==
    IF ops = <<>>
    THEN [list |-> list, panic |-> FALSE, applied |-> applied]
    ELSE LET r == ChildrenScheduleOperation_resolve(Head(ops), list)
         IN  IF r.panic
             THEN [list |-> r.list, panic |-> TRUE, applied |-> applied]
             ELSE Drain(r.list, Tail(ops), Append(applied, Head(ops)))

\* ChildrenScheduler::child_received_item that tells the parent whether or
\* not the flag was already there
RECURSIVE ChildrenScheduler_child_received_item_Always(_, _, _)
ChildrenScheduler_child_received_item_Always(fl, par, s) ==
    LET set == [fl EXCEPT ![s] = TRUE]
    IN  IF par[s] # NoParent
        THEN ChildrenScheduler_child_received_item_Always(set, par, par[s])
        ELSE set

\* ChildrenScheduler::child_received_item on scheduler s: set the flag and
\* tell the parent, unless the flag was already there
RECURSIVE ChildrenScheduler_child_received_item(_, _, _)
ChildrenScheduler_child_received_item(fl, par, s) ==
    IF ~fl[s]
    THEN LET set == [fl EXCEPT ![s] = TRUE]
         IN  IF par[s] # NoParent
             THEN ChildrenScheduler_child_received_item(set, par, par[s])
             ELSE set
    ELSE fl

\* ChildrenScheduler::resolve on scheduler s of the tree state st, and
\* Children::resolve on each child when the flag is set
RECURSIVE ChildrenScheduler_resolve(_, _)
RECURSIVE Children_resolve_each(_, _, _)
ChildrenScheduler_resolve(st, s) ==
    LET r == Drain(st.children[s], st.queue[s], <<>>)
        drained == [st EXCEPT !.children[s] = r.list,
                              !.queue[s] = <<>>,
                              !.applied[s] = r.applied,
                              !.visited = @ \cup {s},
                              !.panic = r.panic]
    IN  IF r.panic THEN drained
        ELSE IF drained.flags[s]
        THEN LET rec == Children_resolve_each(drained, r.list, 1)
             IN  IF rec.panic THEN rec ELSE [rec EXCEPT !.flags[s] = FALSE]
        ELSE drained

Children_resolve_each(st, list, i) ==
    IF i > Len(list) \/ st.panic
    THEN st
    ELSE Children_resolve_each(ChildrenScheduler_resolve(st, list[i]), list, i + 1)

\* ----- initial state: the chain of views has been built (Children::new and
\* ChildrenScheduler::new: empty list, empty queue, flags NONE, no handles),
\* nothing has been pushed -----
Init ==
    /\ desc = [v \in Views |-> RootDesc]
    /\ handles = [v \in Views |-> <<>>]
    /\ queue = [v \in Views |-> <<>>]
    /\ flags = [v \in Views |-> FALSE]
    /\ parent = [v \in Views |-> IF 1 < v /\ v <= ChainLen THEN v - 1 ELSE NoParent]
    /\ children = [v \in Views |-> <<>>]
    /\ nextView = ChainLen + 1
    /\ last = [call |-> "none"]
    /\ nops = 0
    /\ panicked = FALSE

\* the views that have been constructed
Created == 1..(nextView - 1)

\* push_operation with the operation queued and the parent told before the
\* validation has been looked at
ChildrenScheduler_push_operation_QueueFirst(s, op, d, par, next, overflow_checks) ==
    LET r == ChildrenScheduleOperation_validate(op, handles[s], d, overflow_checks)
        u == ChildrenScheduleOperation_update(op, handles[s], d)
        told == IF par[s] # NoParent
                THEN ChildrenScheduler_child_received_item(flags, par, par[s])
                ELSE flags
    IN  /\ last' = [call |-> "push", sched |-> s, op |-> op, result |-> r, before |-> d]
        /\ IF r.kind = "Ok"
           THEN /\ handles' = [handles EXCEPT ![s] = u.ce]
                /\ desc' = u.d
                /\ queue' = [queue EXCEPT ![s] = Append(@, op)]
                /\ flags' = told
                /\ parent' = par
                /\ nextView' = next
                /\ nops' = nops + 1
                /\ UNCHANGED <<children, panicked>>
           ELSE /\ panicked' = (r.kind = "Panic")
                /\ queue' = [queue EXCEPT ![s] = Append(@, op)]
                /\ flags' = told
                /\ UNCHANGED <<desc, handles, parent, children, nextView, nops>>

\* push_operation with the accepted operation applied to the child list at once
ChildrenScheduler_push_operation_Eager(s, op, d, par, next, overflow_checks) ==
    LET r == ChildrenScheduleOperation_validate(op, handles[s], d, overflow_checks)
        u == ChildrenScheduleOperation_update(op, handles[s], d)
    IN  /\ last' = [call |-> "push", sched |-> s, op |-> op, result |-> r, before |-> d]
        /\ IF r.kind = "Ok"
           THEN /\ handles' = [handles EXCEPT ![s] = u.ce]
                /\ desc' = u.d
                /\ queue' = [queue EXCEPT ![s] = Append(@, op)]
                /\ flags' = IF par[s] # NoParent
                            THEN ChildrenScheduler_child_received_item(flags, par, par[s])
                            ELSE flags
                /\ parent' = par
                /\ nextView' = next
                /\ nops' = nops + 1
                /\ children' = [children EXCEPT
                                  ![s] = ChildrenScheduleOperation_resolve(op, @).list]
                /\ UNCHANGED panicked
           ELSE /\ panicked' = (r.kind = "Panic")
                /\ UNCHANGED <<desc, handles, queue, flags, parent, children, nextView, nops>>

\* ChildrenScheduler::push_operation on scheduler s; d is the descriptor table
\* the call sees (with the operation's own new view in it), par the parent
\* links, next the allocation counter if the operation is accepted
ChildrenScheduler_push_operation(s, op, d, par, next, overflow_checks) ==
    LET r == ChildrenScheduleOperation_validate(op, handles[s], d, overflow_checks)
        u == ChildrenScheduleOperation_update(op, handles[s], d)
    IN  /\ last' = [call |-> "push", sched |-> s, op |-> op, result |-> r, before |-> d]
        /\ IF r.kind = "Ok"
           THEN /\ handles' = [handles EXCEPT ![s] = u.ce]
                /\ desc' = u.d
                /\ queue' = [queue EXCEPT ![s] = Append(@, op)]
                /\ flags' = IF par[s] # NoParent
                            THEN ChildrenScheduler_child_received_item(flags, par, par[s])
                            ELSE flags
                /\ parent' = par
                /\ nextView' = next
                /\ nops' = nops + 1
                /\ UNCHANGED <<children, panicked>>
           ELSE /\ panicked' = (r.kind = "Panic")
                /\ UNCHANGED <<desc, handles, queue, flags, parent, children, nextView, nops>>

\* the positions a caller may pass: every index of the handle list and the
\* first one past its end (out of range for Move and Delete), and for Insert,
\* which may insert at the end, one more
Positions(s) == 0..Len(handles[s])
InsertPositions(s) == 0..(Len(handles[s]) + 1)

CanCall(s) == ~panicked /\ s \in Created /\ Len(queue[s]) < MaxQueue /\ nops < MaxOps

\* push_operation(Push(view)) with a view built for this parent
Push(s, nd) ==
    /\ CanCall(s) /\ nextView \in Views
    /\ ChildrenScheduler_push_operation(s, OpPush(nextView),
           [desc EXCEPT ![nextView] = nd], [parent EXCEPT ![nextView] = s],
           nextView + 1, FALSE)

\* push_operation(Insert(view, pos)) with a view built for this parent
Insert(s, nd, pos) ==
    /\ CanCall(s) /\ nextView \in Views
    /\ ChildrenScheduler_push_operation(s, OpInsert(nextView, pos),
           [desc EXCEPT ![nextView] = nd], [parent EXCEPT ![nextView] = s],
           nextView + 1, FALSE)

\* push_operation(Move(from, to)); only Move's validation has an arithmetic
\* overflow, so only here does the build's overflow-checks setting matter
Move(s, from, to) ==
    /\ CanCall(s)
    /\ \E oc \in BOOLEAN :
         ChildrenScheduler_push_operation(s, OpMove(from, to), desc, parent, nextView, oc)

\* push_operation(Delete(pos))
Delete(s, pos) ==
    /\ CanCall(s)
    /\ ChildrenScheduler_push_operation(s, OpDelete(pos), desc, parent, nextView, FALSE)

\* Children::resolve on view s
Resolve(s) ==
    /\ ~panicked /\ s \in Created
    /\ LET st == ChildrenScheduler_resolve(
                    [children |-> children, queue |-> queue, flags |-> flags,
                     applied |-> [v \in Views |-> <<>>], visited |-> {},
                     panic |-> FALSE], s)
       IN  /\ children' = st.children
           /\ queue' = st.queue
           /\ flags' = st.flags
           /\ panicked' = st.panic
           /\ last' = [call |-> "resolve", sched |-> s, applied |-> st.applied,
                       visited |-> st.visited]
    /\ UNCHANGED <<desc, handles, parent, nextView, nops>>

\* the scheduler the operations are pushed on: the last view of the chain, so
\* that it has a parent and a grandparent scheduler
Target == ChainLen

Next ==
    \/ \E nd \in NewDescs : Push(Target, nd)
    \/ \E nd \in NewDescs : \E pos \in InsertPositions(Target) : Insert(Target, nd, pos)
    \/ \E from \in Positions(Target), to \in Positions(Target) : Move(Target, from, to)
    \/ \E pos \in Positions(Target) : Delete(Target, pos)
    \/ Resolve(Target)

Spec == Init /\ [][Next]_vars

\* ----- evaluation of a descriptor (get.rs) -----
\* The numeric result is left out: an evaluation is the set of sibling indices
\* it reads and whether it panicked on a missing sibling.  siblings is a slice
\* of k older siblings.
NoRead == [reads |-> {}, panic |-> FALSE]

\* b is evaluated after a, unless a panicked
GetThen(a, b) ==
    IF a.panic THEN a ELSE [reads |-> a.reads \cup b.reads, panic |-> b.panic]

\* RefView::get: siblings.last().unwrap() / siblings.get(n).unwrap()
RefView_get(self, k) ==
    IF self.tag = "Prev"
    THEN IF k = 0 THEN [reads |-> {}, panic |-> TRUE]
                  ELSE [reads |-> {k - 1}, panic |-> FALSE]
    ELSE IF self.id < k THEN [reads |-> {self.id}, panic |-> FALSE]
                        ELSE [reads |-> {}, panic |-> TRUE]

AnchorPoint_get(self, k) == RefView_get(self.ref_view, k)

PositionType_get(self, k) ==
    CASE self.tag = "Anchor" -> AnchorPoint_get(self.val, k)
      [] self.tag = "Set" -> NoRead

ExtentStretch_get(self, k) ==
    GetThen(PositionType_get(self.pos1, k), PositionType_get(self.pos2, k))

SizeType_get(self, k) ==
    CASE self.tag = "Stretch" -> ExtentStretch_get(self.val, k)
      [] self.tag = "Relative" -> RefView_get(self.val, k)
      [] self.tag = "Set" -> NoRead

ExtentLocate_get(self, k) ==
    GetThen(PositionType_get(self.pos, k), SizeType_get(self.size, k))

ExtentRatio_get(self, k) == PositionType_get(self.pos, k)

ExtentUpdateType_get(self, k) ==
    CASE self.tag = "Stretch" -> ExtentStretch_get(self.val, k)
      [] self.tag = "Locate" -> ExtentLocate_get(self.val, k)
      [] self.tag = "Ratio" -> ExtentRatio_get(self.val, k)

ExtentUpdateSingle_get(self, k) == ExtentUpdateType_get(self.extent_type, k)

\* ExtentUpdate::get: y is evaluated before x when x is a Ratio
ExtentUpdate_get(self, k) ==
    IF self.x.extent_type.tag = "Ratio"
    THEN GetThen(ExtentUpdateSingle_get(self.y, k), ExtentUpdateSingle_get(self.x, k))
    ELSE GetThen(ExtentUpdateSingle_get(self.x, k), ExtentUpdateSingle_get(self.y, k))

\* ----- calls on one descriptor -----
\* every value of each descriptor type over the references of Refs
PositionTypes == {SetPos} \cup {Anchor(r) : r \in Refs}
SizeTypes ==
    {SetSize} \cup {Relative(r) : r \in Refs}
    \cup {SizeStretch(p1, p2) : p1 \in PositionTypes, p2 \in PositionTypes}
ExtentUpdateSingles ==
    {Stretch(p1, p2) : p1 \in PositionTypes, p2 \in PositionTypes}
    \cup {Locate(p, z) : p \in PositionTypes, z \in SizeTypes}
    \cup {Ratio(p) : p \in PositionTypes}

\* the other axis of the descriptors under test: one of each shape
OtherAxis ==
    {Locate(SetPos, SetSize), Ratio(Anchor(Prev)), Stretch(Anchor(Id(0)), SetPos)}

\* the descriptors the calls are made on: every shape on one axis
DescInputs ==
    {[x |-> a, y |-> b] : a \in ExtentUpdateSingles, b \in OtherAxis}
    \cup {[x |-> b, y |-> a] : a \in ExtentUpdateSingles, b \in OtherAxis}

\* sibling counts and positions the calls are made with
Lens == 0..(MaxRefId + 1)

\* the view Target has been built with a descriptor of DescInputs
InitDesc ==
    /\ \E d \in DescInputs : desc = [v \in Views |-> IF v = Target THEN d ELSE RootDesc]
    /\ handles = [v \in Views |-> <<>>]
    /\ queue = [v \in Views |-> <<>>]
    /\ flags = [v \in Views |-> FALSE]
    /\ parent = [v \in Views |-> IF 1 < v /\ v <= ChainLen THEN v - 1 ELSE NoParent]
    /\ children = [v \in Views |-> <<>>]
    /\ nextView = ChainLen + 1
    /\ last = [call |-> "none"]
    /\ nops = 0
    /\ panicked = FALSE

\* ExtentUpdate::validate on the descriptor of view v against len handles
Validate(v, len) ==
    /\ last.call = "none"
    /\ last' = [call |-> "validate", view |-> v, len |-> len,
                result |-> ExtentUpdate_validate(desc[v], len)]
    /\ UNCHANGED <<desc, handles, queue, flags, parent, children, nextView, nops, panicked>>

\* ExtentUpdate::update_insert on the descriptor of view v
UpdateInsert(v, pos) ==
    /\ last.call = "none"
    /\ desc' = [desc EXCEPT ![v] = ExtentUpdate_update_insert(@, pos)]
    /\ last' = [call |-> "update_insert", view |-> v, pos |-> pos, before |-> desc[v]]
    /\ UNCHANGED <<handles, queue, flags, parent, children, nextView, nops, panicked>>

\* ExtentUpdate::get on the descriptor of view v with k older siblings
GetExtent(v, k) ==
    /\ last.call = "none"
    /\ LET r == ExtentUpdate_get(desc[v], k)
       IN  /\ last' = [call |-> "get", view |-> v, len |-> k, result |-> r]
           /\ panicked' = r.panic
    /\ UNCHANGED <<desc, handles, queue, flags, parent, children, nextView, nops>>

\* ExtentUpdate::update_move on the descriptor of view v
UpdateMove(v, from, to) ==
    /\ last.call = "none"
    /\ desc' = [desc EXCEPT ![v] = ExtentUpdate_update_move(@, from, to)]
    /\ last' = [call |-> "update_move", view |-> v, from |-> from, to |-> to,
                before |-> desc[v]]
    /\ UNCHANGED <<handles, queue, flags, parent, children, nextView, nops, panicked>>

\* ExtentUpdate::check_id on the descriptor of view v
CheckId(v, id) ==
    /\ last.call = "none"
    /\ last' = [call |-> "check_id", view |-> v, id |-> id,
                result |-> ExtentUpdate_check_id(desc[v], id)]
    /\ UNCHANGED <<desc, handles, queue, flags, parent, children, nextView, nops, panicked>>

\* ExtentUpdate::check_id_range on the descriptor of view v with the range a..b
CheckIdRange(v, a, b) ==
    /\ last.call = "none"
    /\ last' = [call |-> "check_id_range", view |-> v, a |-> a, b |-> b,
                result |-> ExtentUpdate_check_id_range(desc[v], a, b)]
    /\ UNCHANGED <<desc, handles, queue, flags, parent, children, nextView, nops, panicked>>

\* one call on the descriptor drawn by InitDesc
NextDesc ==
    \/ \E len \in Lens : Validate(Target, len)
    \/ \E pos \in Lens : UpdateInsert(Target, pos)
    \/ \E k \in Lens : GetExtent(Target, k)
    \/ \E from \in Lens, to \in Lens : UpdateMove(Target, from, to)
    \/ \E id \in Lens : CheckId(Target, id)
    \/ \E a \in Lens, b \in Lens : CheckIdRange(Target, a, b)

SpecDesc == InitDesc /\ [][NextDesc]_vars

\* ----- an Insert followed by a Delete on a resolved child list -----
\* the descriptors of the children of a drawn list: plain, or with one
\* reference in a Locate position, in a Locate size, or in a Stretch position
\* beside a Ratio
HandleDescs ==
    {RootDesc}
    \cup UNION {{[x |-> Locate(Anchor(r), SetSize), y |-> Locate(SetPos, SetSize)],
                 [x |-> Locate(SetPos, SetSize), y |-> Locate(SetPos, Relative(r))],
                 [x |-> Stretch(SetPos, Anchor(r)), y |-> Ratio(SetPos)]} :
                r \in {Prev} \cup {Id(n) : n \in 0..(MaxRefId + 1)}}

\* the longest drawn list: it leaves one view to insert
RoundTripLen == ChainLen + MaxChildren - 2

\* the descriptor lists of length n that n accepted Push calls can build:
\* each descriptor validates against the ones before it
RECURSIVE ValidLists(_)
ValidLists(n) ==
    IF n = 0 THEN {<<>>}
    ELSE {Append(l, e) : l \in ValidLists(n - 1),
                         e \in {h \in HandleDescs : ExtentUpdate_validate(h, n - 1) = Ok}}

\* the root view after n accepted Push calls and a resolve: views 2..n+1 are
\* its children, in this order
InitRoundTrip ==
    \E n \in 0..RoundTripLen : \E l \in ValidLists(n) :
        /\ desc = [v \in Views |-> IF 2 <= v /\ v <= n + 1 THEN l[v - 1] ELSE RootDesc]
        /\ handles = [v \in Views |-> IF v = Root THEN [i \in 1..n |-> i + 1] ELSE <<>>]
        /\ children = [v \in Views |-> IF v = Root THEN [i \in 1..n |-> i + 1] ELSE <<>>]
        /\ queue = [v \in Views |-> <<>>]
        /\ flags = [v \in Views |-> FALSE]
        /\ parent = [v \in Views |-> IF 2 <= v /\ v <= n + 1 THEN Root ELSE NoParent]
        /\ nextView = n + 2
        /\ last = [call |-> "none"]
        /\ nops = 0
        /\ panicked = FALSE

\* Insert of a view without references and Delete on the root's scheduler
NextRoundTrip ==
    \/ \E pos \in InsertPositions(Root) : Insert(Root, RootDesc, pos)
    \/ \E pos \in Positions(Root) : Delete(Root, pos)

SpecRoundTrip == InitRoundTrip /\ [][NextRoundTrip]_vars

\* ----- vocabulary of the properties -----
Range(seq) == {seq[i] : i \in 1..Len(seq)}

\* the references of a descriptor, slot by slot in a fixed order (x before y)
PosRefs(p) == IF p.tag = "Anchor" THEN <<p.val.ref_view>> ELSE <<>>
StretchRefs(st) == PosRefs(st.pos1) \o PosRefs(st.pos2)
SizeRefs(z) ==
    CASE z.tag = "Stretch" -> StretchRefs(z.val)
      [] z.tag = "Relative" -> <<z.val>>
      [] z.tag = "Set" -> <<>>
TypeRefs(t) ==
    CASE t.tag = "Stretch" -> StretchRefs(t.val)
      [] t.tag = "Locate" -> PosRefs(t.val.pos) \o SizeRefs(t.val.size)
      [] t.tag = "Ratio" -> PosRefs(t.val.pos)
DescRefs(e) == TypeRefs(e.x.extent_type) \o TypeRefs(e.y.extent_type)

\* the descriptor holds Id(n) / holds Prev in some slot
HoldsId(e, n) == \E k \in 1..Len(DescRefs(e)) : DescRefs(e)[k] = Id(n)
HoldsPrev(e) == \E k \in 1..Len(DescRefs(e)) : DescRefs(e)[k] = Prev

\* the child list of s as it will be once the queued operations are applied
Projected(s) == Drain(children[s], queue[s], <<>>)
\* the same in the state a step leads to
ProjectedNext(s) == Drain(children'[s], queue'[s], <<>>)

\* the step is a push_operation call / an accepted one / a rejected one
PushStep == last'.call = "push"
AcceptedStep == PushStep /\ last'.result.kind = "Ok"
RejectedStep == PushStep /\ last'.result.kind = "Err"

\* ----- f32 values -----
\* An f32 is modelled as an exact fraction numer/denom in lowest terms, or as
\* one of the special values.  A result beyond F32Max is rounded to F32Max or
\* overflows to an infinity; rounding of smaller numbers, underflow and the
\* sign of zero are left out.  F32Max stands for f32::MAX.
F32Max == 64
\* half the distance between the largest f32 values: smaller numbers added
\* to F32Max are rounded away
F32HalfUlp == F32Max \div 2

RECURSIVE Gcd(_, _)
Gcd(a, b) == IF b = 0 THEN a ELSE Gcd(b, a % b)
Abs(n) == IF n < 0 THEN -n ELSE n

NaN == [c |-> "nan"]
PosInf == [c |-> "inf", s |-> 1]
NegInf == [c |-> "inf", s |-> -1]

\* the f32 nearest to n/d (d > 0): an infinity from F32Max plus half the gap
\* of the largest numbers on, F32Max itself up to there
Fr(n, d) ==
    IF Abs(n) >= (F32Max + F32HalfUlp) * d THEN (IF n > 0 THEN PosInf ELSE NegInf)
    ELSE IF Abs(n) > F32Max * d THEN [c |-> "num", n |-> (IF n > 0 THEN F32Max ELSE -F32Max), d |-> 1]
    ELSE LET g == Gcd(Abs(n), d)
         IN  IF g = 0 THEN [c |-> "num", n |-> 0, d |-> 1]
             ELSE [c |-> "num", n |-> n \div g, d |-> d \div g]
F(n) == Fr(n, 1)

Sign(a) == IF a.c = "inf" THEN a.s ELSE IF a.n > 0 THEN 1 ELSE IF a.n < 0 THEN -1 ELSE 0

\* a + b
FAdd(a, b) ==
    IF a.c = "nan" \/ b.c = "nan" THEN NaN
    ELSE IF a.c = "inf" THEN (IF b.c = "inf" /\ b.s # a.s THEN NaN ELSE a)
    ELSE IF b.c = "inf" THEN b
    ELSE Fr(a.n * b.d + b.n * a.d, a.d * b.d)

\* -a
FNeg(a) ==
    IF a.c = "nan" THEN NaN
    ELSE IF a.c = "inf" THEN [a EXCEPT !.s = -a.s]
    ELSE [a EXCEPT !.n = -a.n]

\* a - b
FSub(a, b) == FAdd(a, FNeg(b))

\* a * b
FMul(a, b) ==
    IF a.c = "nan" \/ b.c = "nan" THEN NaN
    ELSE IF a.c = "inf" \/ b.c = "inf"
    THEN (IF Sign(a) * Sign(b) = 0 THEN NaN
          ELSE IF Sign(a) * Sign(b) > 0 THEN PosInf ELSE NegInf)
    ELSE Fr(a.n * b.n, a.d * b.d)

\* a / b
FDiv(a, b) ==
    IF a.c = "nan" \/ b.c = "nan" THEN NaN
    ELSE IF a.c = "inf"
    THEN (IF b.c = "inf" THEN NaN
          ELSE IF Sign(a) * Sign(b) < 0 THEN NegInf ELSE PosInf)
    ELSE IF b.c = "inf" THEN F(0)
    ELSE IF b.n = 0
    THEN (IF a.n = 0 THEN NaN ELSE IF a.n > 0 THEN PosInf ELSE NegInf)
    ELSE IF b.n > 0 THEN Fr(a.n * b.d, a.d * b.n)
    ELSE Fr(-(a.n * b.d), a.d * (-b.n))

\* a < b: false when either is NaN
FLt(a, b) ==
    IF a.c = "nan" \/ b.c = "nan" THEN FALSE
    ELSE IF a.c = "inf" THEN a.s < 0 /\ ~(b.c = "inf" /\ b.s < 0)
    ELSE IF b.c = "inf" THEN b.s > 0
    ELSE a.n * b.d < b.n * a.d

\* ----- numeric evaluation of a descriptor (get.rs) -----
\* descriptors with their numbers: a Set position or size, an anchor with
\* its ref_point, an axis with its scale and offset
SetAt(v) == [tag |-> "Set", val |-> v]
AnchorAt(r, p) == [tag |-> "Anchor", val |-> [ref_view |-> r, ref_point |-> p]]
Single(shape, scale_rel, scale_abs, offset_rel, offset_abs) ==
    [extent_type |-> shape.extent_type, scale_rel |-> scale_rel, scale_abs |-> scale_abs,
     offset_rel |-> offset_rel, offset_abs |-> offset_abs]

\* Ratio::new for w > 0 and h > 0, Ratio::get_x, Ratio::get_y
Ratio_new(w, h) == [value |-> FDiv(w, h)]
Ratio_get_x(self) == self.value
Ratio_get_y(self) == FDiv(F(1), self.value)

\* Dim::get_from_view: (x, w) for X and (y, h) for Y of the view's extent
Dim_get_from_view(dim, view) ==
    IF dim = "X" THEN <<view.x, view.w>> ELSE <<view.y, view.h>>

\* RefView::get with Prev read as the first sibling
RefView_get_num_First(self, dim, siblings) ==
    IF self.tag = "Prev"
    THEN Dim_get_from_view(dim, siblings[1])
    ELSE Dim_get_from_view(dim, siblings[self.id + 1])

\* RefView::get on a sibling that is there: (position, size)
RefView_get_num(self, dim, siblings) ==
    IF self.tag = "Prev"
    THEN Dim_get_from_view(dim, siblings[Len(siblings)])
    ELSE Dim_get_from_view(dim, siblings[self.id + 1])

AnchorPoint_get_num(self, dim, siblings) ==
    LET ps == RefView_get_num(self.ref_view, dim, siblings)
    IN  FAdd(ps[1], FMul(self.ref_point, ps[2]))

PositionType_get_num(self, dim, siblings) ==
    CASE self.tag = "Anchor" -> AnchorPoint_get_num(self.val, dim, siblings)
      [] self.tag = "Set" -> self.val

\* ExtentStretch::get: (pos1, pos2 - pos1)
ExtentStretch_get_num(self, dim, siblings) ==
    LET pos1 == PositionType_get_num(self.pos1, dim, siblings)
        pos2 == PositionType_get_num(self.pos2, dim, siblings)
    IN  <<pos1, FSub(pos2, pos1)>>

SizeType_get_num(self, dim, siblings) ==
    CASE self.tag = "Stretch" -> ExtentStretch_get_num(self.val, dim, siblings)[2]
      [] self.tag = "Relative" -> RefView_get_num(self.val, dim, siblings)[2]
      [] self.tag = "Set" -> self.val

ExtentLocate_get_num(self, dim, siblings) ==
    <<PositionType_get_num(self.pos, dim, siblings), SizeType_get_num(self.size, dim, siblings)>>

\* ExtentRatio::get: the size is other_size over the parent ratio of dim
ExtentRatio_get_num(self, dim, siblings, parent_ratio, other_size) ==
    <<PositionType_get_num(self.pos, dim, siblings),
      FDiv(other_size, IF dim = "X" THEN Ratio_get_x(parent_ratio)
                                    ELSE Ratio_get_y(parent_ratio))>>

ExtentUpdateType_get_num(self, dim, siblings, parent_ratio, other_size) ==
    CASE self.tag = "Stretch" -> ExtentStretch_get_num(self.val, dim, siblings)
      [] self.tag = "Locate" -> ExtentLocate_get_num(self.val, dim, siblings)
      [] self.tag = "Ratio" -> ExtentRatio_get_num(self.val, dim, siblings, parent_ratio, other_size)

\* ExtentUpdateSingle::get with the offset taken from the scaled size
ExtentUpdateSingle_get_num_ScaledOffset(self, dim, siblings, parent_ratio, other_size) ==
    LET raw == ExtentUpdateType_get_num(self.extent_type, dim, siblings, parent_ratio, other_size)
        size == FAdd(FMul(raw[2], self.scale_rel), self.scale_abs)
        pos == FAdd(raw[1], FAdd(self.offset_abs, FMul(self.offset_rel, size)))
    IN  <<pos, IF FLt(size, F(0)) THEN F(0) ELSE size>>

\* ExtentUpdateSingle::get: offsets use the raw size, then the size is scaled
\* and a size below zero becomes zero
ExtentUpdateSingle_get_num(self, dim, siblings, parent_ratio, other_size) ==
    LET raw == ExtentUpdateType_get_num(self.extent_type, dim, siblings, parent_ratio, other_size)
        pos == FAdd(raw[1], FAdd(self.offset_abs, FMul(self.offset_rel, raw[2])))
        size == FAdd(FMul(raw[2], self.scale_rel), self.scale_abs)
    IN  <<pos, IF FLt(size, F(0)) THEN F(0) ELSE size>>

\* ExtentUpdate::get that always evaluates X first
ExtentUpdate_get_num_XFirst(self, siblings, parent_ratio) ==
    LET x == ExtentUpdateSingle_get_num(self.x, "X", siblings, parent_ratio, F(0))
        y == ExtentUpdateSingle_get_num(self.y, "Y", siblings, parent_ratio, x[2])
    IN  [x |-> x[1], y |-> y[1], w |-> x[2], h |-> y[2]]

\* ExtentUpdate::get: (x, y, w, h); the axis that is not a Ratio is evaluated
\* first and hands its size to the other one
ExtentUpdate_get_num(self, siblings, parent_ratio) ==
    IF self.x.extent_type.tag = "Ratio"
    THEN LET y == ExtentUpdateSingle_get_num(self.y, "Y", siblings, parent_ratio, F(0))
             x == ExtentUpdateSingle_get_num(self.x, "X", siblings, parent_ratio, y[2])
         IN  [x |-> x[1], y |-> y[1], w |-> x[2], h |-> y[2]]
    ELSE LET x == ExtentUpdateSingle_get_num(self.x, "X", siblings, parent_ratio, F(0))
             y == ExtentUpdateSingle_get_num(self.y, "Y", siblings, parent_ratio, x[2])
         IN  [x |-> x[1], y |-> y[1], w |-> x[2], h |-> y[2]]

\* ----- evaluations of one descriptor -----
\* the references, positions, sizes and shapes of the evaluated descriptors
NumRefs == {Prev, Id(0), Id(1)}
NumPositions ==
    {SetAt(F(v)) : v \in {-F32Max, 0, 2, F32Max}} \cup {AnchorAt(r, Fr(1, 2)) : r \in NumRefs}
InnerPositions == {SetAt(F(2)), AnchorAt(Prev, Fr(1, 2))}
NumSizes ==
    {SetAt(F(v)) : v \in {-1, 0, 2}} \cup {Relative(r) : r \in NumRefs}
    \cup {SizeStretch(p1, p2) : p1 \in InnerPositions, p2 \in InnerPositions}
NumShapes ==
    {Stretch(p1, p2) : p1 \in NumPositions, p2 \in NumPositions}
    \cup {Locate(p, z) : p \in NumPositions, z \in NumSizes}
    \cup {Ratio(p) : p \in NumPositions}

\* every shape with every scale and offset of a small set
NumSingles ==
    {Single(t, F(sr), F(sa), Fr(or, 2), F(oa)) :
        t \in NumShapes, sr \in {-1, 0, 1}, sa \in {-1, 0}, or \in {0, 1}, oa \in {0, 3}}

\* the other axis: a Locate whose scale changes its size, or a Ratio
NumOtherSingles ==
    {Single(Locate(SetAt(F(5)), SetAt(F(2))), F(2), F(1), F(0), F(0)),
     Single(Ratio(SetAt(F(1))), F(1), F(0), F(0), F(0))}

NumDescs ==
    {[x |-> a, y |-> b] : a \in NumSingles, b \in NumOtherSingles}
    \cup {[x |-> b, y |-> a] : a \in NumSingles, b \in NumOtherSingles}

\* the older siblings, their extents resolved, and the parent ratios
Sibling1 == [x |-> F(1), y |-> F(2), w |-> F(3), h |-> F(4)]
Sibling2 == [x |-> F(5), y |-> F(6), w |-> F(7), h |-> F(8)]
SiblingLists == {<<Sibling1>>, <<Sibling1, Sibling2>>}
ParentSizes == {<<1, 4>>, <<2, 1>>}
ParentRatios == {Ratio_new(F(p[1]), F(p[2])) : p \in ParentSizes}
OtherSizes == {F(2), F(5)}

\* the view Target has been built with a descriptor of NumDescs
InitNum ==
    /\ \E d \in NumDescs : desc = [v \in Views |-> IF v = Target THEN d ELSE RootDesc]
    /\ handles = [v \in Views |-> <<>>]
    /\ queue = [v \in Views |-> <<>>]
    /\ flags = [v \in Views |-> FALSE]
    /\ parent = [v \in Views |-> IF 1 < v /\ v <= ChainLen THEN v - 1 ELSE NoParent]
    /\ children = [v \in Views |-> <<>>]
    /\ nextView = ChainLen + 1
    /\ last = [call |-> "none"]
    /\ nops = 0
    /\ panicked = FALSE

\* ExtentUpdate::get on the descriptor of view v, which validates against the
\* siblings
GetNum(v, siblings, parent_ratio) ==
    /\ last.call = "none"
    /\ ExtentUpdate_validate(desc[v], Len(siblings)) = Ok
    /\ last' = [call |-> "get_num", view |-> v, siblings |-> siblings,
                parent_ratio |-> parent_ratio,
                result |-> ExtentUpdate_get_num(desc[v], siblings, parent_ratio)]
    /\ UNCHANGED <<desc, handles, queue, flags, parent, children, nextView, nops, panicked>>

\* ExtentUpdateSingle::get on one axis of the descriptor of view v
GetSingleNum(v, axis, siblings, parent_ratio, other_size) ==
    /\ last.call = "none"
    /\ ExtentUpdate_validate(desc[v], Len(siblings)) = Ok
    /\ last' = [call |-> "get_single", view |-> v, axis |-> axis, siblings |-> siblings,
                parent_ratio |-> parent_ratio, other_size |-> other_size,
                result |-> ExtentUpdateSingle_get_num(desc[v][axis],
                              IF axis = "x" THEN "X" ELSE "Y",
                              siblings, parent_ratio, other_size)]
    /\ UNCHANGED <<desc, handles, queue, flags, parent, children, nextView, nops, panicked>>

\* one evaluation of the descriptor drawn by InitNum
NextNum ==
    \/ \E siblings \in SiblingLists, pr \in ParentRatios : GetNum(Target, siblings, pr)
    \/ \E axis \in {"x", "y"}, siblings \in SiblingLists, pr \in ParentRatios,
          other \in OtherSizes : GetSingleNum(Target, axis, siblings, pr, other)

SpecNum == InitNum /\ [][NextNum]_vars

\* ----- Extent (extent.rs) -----
\* a >= b
FGe(a, b) == a.c # "nan" /\ b.c # "nan" /\ ~FLt(a, b)

\* Extent::from_span: a far edge below the near edge is moved onto it
Extent_from_span(x1, y1, x2, y2) ==
    [x1 |-> x1, y1 |-> y1,
     x2 |-> IF FLt(x2, x1) THEN x1 ELSE x2,
     y2 |-> IF FLt(y2, y1) THEN y1 ELSE y2]

\* Extent::from_size
Extent_from_size(x, y, w, h) == Extent_from_span(x, y, FAdd(x, w), FAdd(y, h))

\* Extent::contained with the far edges included
Extent_contained_Closed(self, x, y) ==
    FGe(x, self.x1) /\ FGe(y, self.y1) /\ FGe(self.x2, x) /\ FGe(self.y2, y)

\* Extent::contained
Extent_contained(self, x, y) ==
    FGe(x, self.x1) /\ FGe(y, self.y1) /\ FLt(x, self.x2) /\ FLt(y, self.y2)

\* the coordinates and sizes extents are built from, and the points asked for
ExtentValues == {F(-F32Max), F(-1), F(0), F(2), F(F32Max), NaN}
PointValues == ExtentValues \cup {Fr(1, 2)}

FromSize(x, y, w, h) ==
    /\ last.call = "none"
    /\ last' = [call |-> "from_size", args |-> <<x, y, w, h>>,
                extent |-> Extent_from_size(x, y, w, h)]
    /\ UNCHANGED <<desc, handles, queue, flags, parent, children, nextView, nops, panicked>>

FromSpan(x1, y1, x2, y2) ==
    /\ last.call = "none"
    /\ last' = [call |-> "from_span", args |-> <<x1, y1, x2, y2>>,
                extent |-> Extent_from_span(x1, y1, x2, y2)]
    /\ UNCHANGED <<desc, handles, queue, flags, parent, children, nextView, nops, panicked>>

\* contained on the extent that has been built
Contained(x, y) ==
    /\ last.call \in {"from_size", "from_span"}
    /\ last' = [call |-> "contained", extent |-> last.extent, x |-> x, y |-> y,
                result |-> Extent_contained(last.extent, x, y)]
    /\ UNCHANGED <<desc, handles, queue, flags, parent, children, nextView, nops, panicked>>

NextExtent ==
    \/ \E x \in ExtentValues, y \in ExtentValues, w \in ExtentValues, h \in ExtentValues :
          FromSize(x, y, w, h)
    \/ \E x1 \in ExtentValues, y1 \in ExtentValues, x2 \in ExtentValues, y2 \in ExtentValues :
          FromSpan(x1, y1, x2, y2)
    \/ \E x \in PointValues, y \in PointValues : Contained(x, y)

SpecExtent == Init /\ [][NextExtent]_vars

\* ----- the event loop (event_loop.rs) -----
\* the most events one run of the loop delivers
MaxEvents == 3

\* the winit events told apart
MainEventsCleared == "MainEventsCleared"
Events == {"NewEvents", "WindowEvent", MainEventsCleared, "RedrawRequested"}

\* what the loop has done: an event delivered, the update of the root
\* invoked, the handler of the user called with an event
Delivered(e) == <<"event", e>>
UpdateInvoked == <<"update", MainEventsCleared>>
HandlerCalled(e) == <<"handler", e>>

\* View::update of the root: its body is todo!(), which panics; a finished
\* body returns
View_update_outcomes == {"returns", "panics"}

\* the closure with the handler of the user called before the update
view_event_handler_HandlerFirst(event, outcome) ==
    IF event = MainEventsCleared
    THEN [did |-> <<HandlerCalled(event), UpdateInvoked>>, panic |-> outcome = "panics"]
    ELSE [did |-> <<HandlerCalled(event)>>, panic |-> FALSE]

\* the closure EventLoop::run hands to winit, on one event: the update of the
\* root on MainEventsCleared, then the handler of the user; a panic of the
\* update ends it before the handler
view_event_handler(event, outcome) ==
    IF event = MainEventsCleared
    THEN IF outcome = "panics"
         THEN [did |-> <<UpdateInvoked>>, panic |-> TRUE]
         ELSE [did |-> <<UpdateInvoked, HandlerCalled(event)>>, panic |-> FALSE]
    ELSE [did |-> <<HandlerCalled(event)>>, panic |-> FALSE]

\* EventLoop::run: the loop starts
Run ==
    /\ last.call = "none"
    /\ last' = [call |-> "run", pc |-> "running", log |-> <<>>, events |-> 0]
    /\ UNCHANGED <<desc, handles, queue, flags, parent, children, nextView, nops, panicked>>

\* winit delivers one event to the closure; the handler of the user may set
\* the control flow to Exit, after which no event is delivered
DeliverEvent(event, outcome, exit) ==
    /\ last.call = "run" /\ last.pc = "running"
    /\ last.events < MaxEvents
    /\ LET r == view_event_handler(event, outcome)
       IN  /\ last' = [last EXCEPT
                          !.log = last.log \o <<Delivered(event)>> \o r.did,
                          !.events = last.events + 1,
                          !.pc = IF r.panic THEN "panicked"
                                 ELSE IF exit THEN "exited" ELSE "running"]
           /\ panicked' = r.panic
    /\ UNCHANGED <<desc, handles, queue, flags, parent, children, nextView, nops>>

NextLoop ==
    \/ Run
    \/ \E event \in Events, outcome \in View_update_outcomes, exit \in BOOLEAN :
          DeliverEvent(event, outcome, exit)

SpecLoop == Init /\ [][NextLoop]_vars

\* ----- ViewUpdater (view/update.rs) -----
\* the update flags of a view
UPDATE_EXTENT_SELF == "UPDATE_EXTENT_SELF"
UPDATE_EXTENT_CHILD == "UPDATE_EXTENT_CHILD"

\* ViewUpdater::set_extent_update_parent on the updater of view v, uf the
\* update flags of the views and par the parent updaters: a view whose
\* updater has a parent gets UPDATE_EXTENT_CHILD and the call goes on to the
\* parent, unless the view had the flag
RECURSIVE ViewUpdater_set_extent_update_parent(_, _, _)
ViewUpdater_set_extent_update_parent(uf, par, v) ==
    IF par[v] # NoParent
    THEN IF UPDATE_EXTENT_CHILD \notin uf[v]
         THEN ViewUpdater_set_extent_update_parent(
                  [uf EXCEPT ![v] = @ \cup {UPDATE_EXTENT_CHILD}], par, par[v])
         ELSE uf
    ELSE uf

\* ViewUpdater::get_extent_update_info: UPDATE_EXTENT_SELF on the view, then
\* set_extent_update_parent on the same updater
ViewUpdater_get_extent_update_info(uf, par, v) ==
    ViewUpdater_set_extent_update_parent(
        [uf EXCEPT ![v] = @ \cup {UPDATE_EXTENT_SELF}], par, v)

\* a tree of views, view v below view v \div 2, each built with the flags
\* NONE; the updater of a view has the updater of its parent view as parent
InitUpdater ==
    /\ desc = [v \in Views |-> RootDesc]
    /\ handles = [v \in Views |-> <<>>]
    /\ queue = [v \in Views |-> <<>>]
    /\ flags = [v \in Views |-> FALSE]
    /\ parent = [v \in Views |-> v \div 2]
    /\ children = [v \in Views |-> <<>>]
    /\ nextView = ChainLen + 1
    /\ last = [call |-> "new", update_flags |-> [v \in Views |-> {}]]
    /\ nops = 0
    /\ panicked = FALSE

\* get_extent_update_info on the updater of view v
GetExtentUpdateInfo(v) ==
    /\ last' = [call |-> "get_extent_update_info", view |-> v,
                before |-> last.update_flags,
                update_flags |-> ViewUpdater_get_extent_update_info(last.update_flags, parent, v)]
    /\ UNCHANGED <<desc, handles, queue, flags, parent, children, nextView, nops, panicked>>

NextUpdater == \E v \in Views : GetExtentUpdateInfo(v)

SpecUpdater == InitUpdater /\ [][NextUpdater]_vars

\* ----- operations anywhere in a tree, resolve on the root -----
\* push_operation(Push(view)) on the parent scheduler of a view v that has
\* been built for that parent and not pushed yet
PushBuilt(v) ==
    /\ v \in Created /\ parent[v] # NoParent
    /\ CanCall(parent[v])
    /\ v \notin Range(handles[parent[v]])
    /\ ChildrenScheduler_push_operation(parent[v], OpPush(v), desc, parent, nextView, FALSE)

\* pushes of new and of built views and deletes on every scheduler that has
\* been built, resolve only on the root
NextTree ==
    \/ \E s \in Created : Push(s, RootDesc)
    \/ \E v \in Created : PushBuilt(v)
    \/ \E s \in Created : \E pos \in Positions(s) : Delete(s, pos)
    \/ Resolve(Root)

SpecTree == Init /\ [][NextTree]_vars

\* ----- C1 -----
\* C1: every handle at index i of a handle list references only Id(n) with
\* n < i, and references Prev only if i > 0.
C1_ReferencesPointBack ==
    \A s \in Views : \A i \in 0..(Len(handles[s]) - 1) :
        LET refs == DescRefs(desc[handles[s][i + 1]])
        IN  \A k \in 1..Len(refs) :
                IF refs[k].tag = "Id" THEN refs[k].id < i ELSE i > 0

\* ----- C2 -----
\* C2: a push_operation call that returns an error leaves the handle list, the
\* descriptors of the handles, the queue, the scheduler's flag and every
\* ancestor's flag as they were before the call.
C2_RejectedPushChangesNothing ==
    [][RejectedStep =>
         UNCHANGED <<desc, handles, queue, flags, parent, children, nextView>>]_vars

\* a push_operation has been rejected on a scheduler that holds handles and a
\* queued operation and whose ancestors are flagged
C2_Witness ==
    /\ last.call = "push" /\ last.result.kind = "Err"
    /\ Len(handles[Target]) >= 2
    /\ queue[Target] # <<>>
    /\ flags[parent[Target]] /\ flags[Root]

\* ----- C3 -----
\* C3: after a resolve, the handle list and the child list of the resolved
\* scheduler have the same length and hold the same views index by index.
C3_HandlesMirrorChildren ==
    (last.call = "resolve" /\ ~panicked) =>
        handles[last.sched] = children[last.sched]

\* ----- C4 -----
\* C4: for every accepted Insert, Move or Delete, each Id reference held by a
\* surviving handle denotes the same sibling view after the index rewrite
\* (and the later resolve) as it did before the operation was pushed.
C4_ReferencesKeepTheirSibling ==
    [][(/\ AcceptedStep
        /\ last'.op.tag \in {"Insert", "Move", "Delete"}
        /\ ~Projected(last'.sched).panic
        /\ ~ProjectedNext(last'.sched).panic)
       => LET s == last'.sched
              before == Projected(s).list
              after == ProjectedNext(s).list
          IN  \A v \in Range(handles[s]) \cap Range(after) :
                \A k \in 1..Len(DescRefs(desc[v])) :
                    LET old == DescRefs(desc[v])[k]
                        new == DescRefs(desc'[v])[k]
                    IN  (old.tag = "Id" /\ old.id < Len(before)) =>
                            /\ new.tag = "Id"
                            /\ new.id < Len(after)
                            /\ after[new.id + 1] = before[old.id + 1]]_vars

\* ----- C5 -----
\* C5: resolve applies every queued operation without an out-of-bounds index.
C5_ResolveStaysInBounds ==
    ~(last.call = "resolve" /\ panicked)

\* ----- C6 -----
\* C6: resolve applies the queued operations to the child list in the order
\* in which they were accepted, each exactly once, and leaves the queue empty.
C6_ResolveAppliesQueueInOrder ==
    [][last'.call = "resolve" =>
         /\ last'.applied[last'.sched] = queue[last'.sched]
         /\ queue'[last'.sched] = <<>>]_vars

\* ----- C7 -----
\* C7: push_operation never changes a child list, whether it accepts or
\* rejects; a child list changes only inside resolve.
C7_OnlyResolveChangesChildren ==
    [][/\ (PushStep => children' = children)
       /\ (children' # children => last'.call = "resolve")]_vars

\* an operation has been accepted while the child list still shows the
\* children of the last resolve
C7_Witness ==
    /\ last.call = "push" /\ last.result.kind = "Ok"
    /\ children[Target] # <<>>
    /\ ~Projected(Target).panic
    /\ Projected(Target).list # children[Target]

\* ----- C8 -----
\* C8: after an accepted Insert(child, pos) the handle list is one element
\* longer, the child's handle is at index pos, the handles before pos are
\* where they were and the handles at indices >= pos are at their old index + 1.
C8_InsertPlacesHandle ==
    [][(AcceptedStep /\ last'.op.tag = "Insert") =>
         LET s == last'.sched
             pos == last'.op.pos
         IN  /\ Len(handles'[s]) = Len(handles[s]) + 1
             /\ handles'[s][pos + 1] = last'.op.view
             /\ \A i \in 0..(Len(handles[s]) - 1) :
                    handles'[s][IF i < pos THEN i + 1 ELSE i + 2] = handles[s][i + 1]]_vars

\* ----- C9 -----
\* C9: after an accepted Delete(pos) the handle list is one element shorter:
\* the handle at pos is gone and every handle after it is at its old index - 1.
C9_DeleteRemovesHandle ==
    [][(AcceptedStep /\ last'.op.tag = "Delete") =>
         LET s == last'.sched
             pos == last'.op.pos
         IN  /\ Len(handles'[s]) = Len(handles[s]) - 1
             /\ \A i \in 0..(Len(handles[s]) - 1) :
                    i # pos => handles'[s][IF i < pos THEN i + 1 ELSE i] = handles[s][i + 1]]_vars

\* ----- C10 -----
\* some handle at an index in (pos, n) of scheduler s holds Id(pos)
LaterHandleHoldsId(s, pos) ==
    \E i \in (pos + 1)..(Len(handles[s]) - 1) : HoldsId(desc[handles[s][i + 1]], pos)

\* C10: Delete(pos) with pos < n is rejected whenever some handle at an index
\* in (pos, n) references Id(pos), and is accepted when no later handle
\* references Id(pos) and pos > 0.
C10_DeleteRejectedIffReferenced ==
    [][(/\ PushStep /\ last'.op.tag = "Delete"
        /\ last'.op.pos < Len(handles[last'.sched]))
       => LET s == last'.sched
              pos == last'.op.pos
          IN  /\ LaterHandleHoldsId(s, pos) => last'.result.kind = "Err"
              /\ (~LaterHandleHoldsId(s, pos) /\ pos > 0) => last'.result.kind = "Ok"]_vars

\* a Delete of a position after the first has been rejected because a later
\* handle references the position
C10_Witness ==
    /\ last.call = "push" /\ last.op.tag = "Delete"
    /\ last.op.pos > 0 /\ last.op.pos < Len(handles[last.sched])
    /\ last.result.kind = "Err" /\ last.result.err.tag = "InvalidId"
    /\ LaterHandleHoldsId(last.sched, last.op.pos)

\* ----- C11 -----
\* some handle after index 0 of scheduler s holds Prev
LaterHandleHoldsPrev(s) ==
    \E i \in 1..(Len(handles[s]) - 1) : HoldsPrev(desc[handles[s][i + 1]])

\* C11: Delete(0) is rejected when some handle after position 0 references
\* Prev, so that no handle that references Prev ends up at index 0.
C11_DeleteFirstRejectedIfPrev ==
    [][(/\ PushStep /\ last'.op.tag = "Delete" /\ last'.op.pos = 0
        /\ LaterHandleHoldsPrev(last'.sched))
       => last'.result.kind = "Err"]_vars

\* ----- C12 -----
\* C12: Move(from, to) with from < to < n is rejected whenever some handle at
\* an index in (from, to], the handle at index to included, references
\* Id(from).
C12_MoveForwardRejectedIfReferenced ==
    [][(/\ PushStep /\ last'.op.tag = "Move"
        /\ last'.op.from < last'.op.to
        /\ last'.op.to < Len(handles[last'.sched])
        /\ \E i \in (last'.op.from + 1)..last'.op.to :
               HoldsId(desc[handles[last'.sched][i + 1]], last'.op.from))
       => last'.result.kind = "Err"]_vars

\* ----- C13 -----
\* C13: Move(from, to) with to < from < n is accepted if and only if the moved
\* handle references no Id in [to, from) and it is not the case that to = 0
\* while the moved handle references Prev.
C13_MoveBackAcceptedIff ==
    [][(/\ PushStep /\ last'.op.tag = "Move"
        /\ last'.op.to < last'.op.from
        /\ last'.op.from < Len(handles[last'.sched]))
       => LET from == last'.op.from
              to == last'.op.to
              moved == desc[handles[last'.sched][from + 1]]
          IN  (last'.result.kind = "Ok")
              <=> (/\ \A n \in to..(from - 1) : ~HoldsId(moved, n)
                   /\ ~(to = 0 /\ HoldsPrev(moved)))]_vars

\* a Move to an earlier position other than the first has been accepted for a
\* handle that references a sibling before the destination
C13_Witness ==
    /\ last.call = "push" /\ last.op.tag = "Move"
    /\ 0 < last.op.to /\ last.op.to < last.op.from
    /\ last.op.from < Len(handles[last.sched])
    /\ last.result.kind = "Ok"
    /\ \E n \in 0..(last.op.to - 1) :
           HoldsId(desc[handles[last.sched][last.op.from + 1]], n)

\* ----- C14 -----
\* C14: in a handle list of 3 siblings where sibling 2 references Id(0),
\* Move(0, 2) is either rejected, or accepted with every Id of sibling 2
\* rewritten to an index strictly before 1, the position sibling 2 has once
\* sibling 0 has been moved behind it.
C14_MoveFirstToLastKeepsBackReference ==
    [][(/\ PushStep /\ last'.op.tag = "Move"
        /\ last'.op.from = 0 /\ last'.op.to = 2
        /\ Len(handles[last'.sched]) = 3
        /\ HoldsId(desc[handles[last'.sched][3]], 0))
       => \/ last'.result.kind = "Err"
          \/ LET refs == DescRefs(desc'[handles[last'.sched][3]])
             IN  \A k \in 1..Len(refs) : refs[k].tag = "Id" => refs[k].id < 1]_vars

\* ----- C15 -----
\* the step before was update_insert on a descriptor / validate / get
InsertCalled == last.call = "update_insert"
ValidateCalled == last.call = "validate"
GetCalled == last.call = "get"

\* C15: update_insert(pos) turns every Id(n) with n >= pos into Id(n + 1) and
\* leaves every Id(n) with n < pos and every Prev as it was, in every slot of
\* both axes.
C15_UpdateInsertShiftsEveryReference ==
    InsertCalled =>
        LET before == DescRefs(last.before)
            after == DescRefs(desc[last.view])
        IN  /\ Len(after) = Len(before)
            /\ \A k \in 1..Len(before) :
                   after[k] = IF before[k].tag = "Id" /\ before[k].id >= last.pos
                              THEN Id(before[k].id + 1)
                              ELSE before[k]

\* ----- C17 -----
\* both axes of the descriptor are Ratio
BothAxesRatio(e) == e.x.extent_type.tag = "Ratio" /\ e.y.extent_type.tag = "Ratio"

\* the indices of the slots of e whose Id is not below len
IdsOutOfRange(e, len) ==
    {k \in 1..Len(DescRefs(e)) : DescRefs(e)[k].tag = "Id" /\ DescRefs(e)[k].id >= len}

\* the smallest element of a non-empty set of numbers
Least(S) == CHOOSE k \in S : \A j \in S : k <= j

\* C17: a descriptor whose references are all Ids (and whose axes are not both
\* Ratio) is accepted by validate if and only if every Id(n) has n < len;
\* otherwise the result is InvalidId(n, len) for the first Id(n) with n >= len.
C17_IdAcceptedIffBelowLen ==
    (/\ ValidateCalled
     /\ ~BothAxesRatio(desc[last.view]) /\ ~HoldsPrev(desc[last.view]))
    => LET e == desc[last.view]
           bad == IdsOutOfRange(e, last.len)
       IN  IF bad = {}
           THEN last.result = Ok
           ELSE last.result = Err([tag |-> "InvalidId",
                                   a |-> DescRefs(e)[Least(bad)].id, b |-> last.len])

\* validate has returned InvalidId for a descriptor that holds Ids in two
\* slots, the first of which is in range
C17_Witness ==
    /\ ValidateCalled /\ last.result.kind = "Err"
    /\ last.result.err.tag = "InvalidId"
    /\ ~HoldsPrev(desc[last.view])
    /\ IdsOutOfRange(desc[last.view], last.len) # {}
    /\ Least(IdsOutOfRange(desc[last.view], last.len)) > 1

\* ----- C18 -----
\* C18: a descriptor that holds Prev in some slot and no Id (and whose axes
\* are not both Ratio) is accepted by validate if and only if len > 0, and
\* otherwise the result is NoPrev, whatever slot the Prev is in.
C18_PrevAcceptedIffNonEmpty ==
    (/\ ValidateCalled
     /\ ~BothAxesRatio(desc[last.view]) /\ HoldsPrev(desc[last.view])
     /\ \A k \in 1..Len(DescRefs(desc[last.view])) : DescRefs(desc[last.view])[k] = Prev)
    => last.result = IF last.len > 0 THEN Ok ELSE Err([tag |-> "NoPrev"])

\* validate against no older sibling has returned NoPrev for a descriptor
\* whose only Prev is inside the Stretch of a Locate size
C18_Witness ==
    /\ ValidateCalled /\ last.len = 0
    /\ last.result = Err([tag |-> "NoPrev"])
    /\ \E ax \in {"x", "y"} :
           LET t == desc[last.view][ax].extent_type
           IN  /\ t.tag = "Locate" /\ t.val.pos.tag = "Set"
               /\ t.val.size.tag = "Stretch"
               /\ Len(DescRefs(desc[last.view])) = 1

\* ----- C19 -----
\* validate accepts the reference against len older siblings
RefAccepted(r, len) == IF r.tag = "Id" THEN r.id < len ELSE len > 0

\* C19: validate returns BothRatio exactly when both axes are Ratio, whatever
\* len is; a descriptor with at most one Ratio axis is accepted if and only if
\* every reference on both axes is.
C19_BothRatioElseEveryReference ==
    ValidateCalled =>
        LET e == desc[last.view]
        IN  /\ (last.result = Err([tag |-> "BothRatio"])) <=> BothAxesRatio(e)
            /\ ~BothAxesRatio(e) =>
                   ((last.result = Ok)
                    <=> \A k \in 1..Len(DescRefs(e)) : RefAccepted(DescRefs(e)[k], last.len))

\* validate has returned BothRatio although every reference of the descriptor
\* is accepted against len
C19_Witness ==
    /\ ValidateCalled /\ last.result = Err([tag |-> "BothRatio"])
    /\ Len(DescRefs(desc[last.view])) = 2
    /\ \A k \in 1..2 : RefAccepted(DescRefs(desc[last.view])[k], last.len)

\* ----- C20 -----
\* C20: the evaluation of a descriptor that validate accepts against k older
\* siblings reads only sibling indices below k and does not panic on a
\* missing sibling.
C20_AcceptedDescriptorEvaluates ==
    (GetCalled /\ ExtentUpdate_validate(desc[last.view], last.len) = Ok)
    => /\ ~last.result.panic
       /\ \A i \in last.result.reads : 0 <= i /\ i < last.len

\* a descriptor with a Stretch nested in a Locate size has been evaluated and
\* has read two different older siblings
C20_Witness ==
    /\ GetCalled /\ ExtentUpdate_validate(desc[last.view], last.len) = Ok
    /\ \E ax \in {"x", "y"} :
           LET t == desc[last.view][ax].extent_type
           IN  t.tag = "Locate" /\ t.val.size.tag = "Stretch"
    /\ Cardinality(last.result.reads) >= 2
    /\ ~last.result.panic

\* ----- C16 -----
\* C16: an accepted Delete(pos) that directly follows an accepted Insert at
\* pos on the same scheduler leaves every handle other than the inserted one
\* with the references, slot by slot on both axes, that it had before the
\* Insert.
C16_InsertThenDeleteRestores ==
    [][(/\ AcceptedStep /\ last'.op.tag = "Delete"
        /\ last.call = "push" /\ last.result.kind = "Ok" /\ last.op.tag = "Insert"
        /\ last.sched = last'.sched /\ last.op.pos = last'.op.pos)
       => \A h \in Range(handles'[last'.sched]) \ {last.op.view} :
              DescRefs(desc'[h]) = DescRefs(last.before[h])]_vars

\* ----- C21 -----
\* the kind of a result: Ok, Panic, or the tag of the error
ResultTag(r) == IF r.kind = "Err" THEN r.err.tag ELSE r.kind

\* C21: with n the length of the handle list, push_operation returns
\* OutOfRange for Insert with pos > n and for Move with to >= n, InvalidPos for
\* Move with from >= n (and to < n) and for Delete with pos >= n, and no
\* position error for Insert with pos = n.
C21_PositionErrors ==
    [][PushStep =>
         LET n == Len(handles[last'.sched])
             op == last'.op
             tag == ResultTag(last'.result)
         IN  /\ (op.tag = "Insert" /\ op.pos > n) => tag = "OutOfRange"
             /\ (op.tag = "Insert" /\ op.pos = n) => tag \in {"Ok", "InvalidNew"}
             /\ (op.tag = "Move" /\ op.to >= n) => tag = "OutOfRange"
             /\ (op.tag = "Move" /\ op.to < n /\ op.from >= n) => tag = "InvalidPos"
             /\ (op.tag = "Delete" /\ op.pos >= n) => tag = "InvalidPos"]_vars

\* ----- C22 -----
\* C22: push_operation returns Ok or an error for every operation and every
\* handle list: it does not panic, and the numbers in the error it returns
\* have not wrapped around.
C22_PushOperationIsTotal ==
    [][PushStep =>
         /\ last'.result.kind \in {"Ok", "Err"}
         /\ (last'.result.kind = "Err" /\ last'.result.err.tag \in {"OutOfRange", "InvalidPos"})
            => ~last'.result.err.b.wrapped]_vars

\* ----- C23 -----
\* the proper ancestor schedulers of s along the parent_scheduler links
RECURSIVE Ancestors(_)
Ancestors(s) == IF parent[s] = NoParent THEN {} ELSE {parent[s]} \cup Ancestors(parent[s])

\* C23: an accepted push_operation on a scheduler leaves the flag set on every
\* proper ancestor scheduler up to the root, whatever pushes and resolves on
\* the root came before.
C23_AcceptedPushFlagsAncestors ==
    [][AcceptedStep => \A a \in Ancestors(last'.sched) : flags'[a]]_vars

\* ----- C24 -----
\* the views that are in the tree below s through the child lists
RECURSIVE Subtree(_)
Subtree(s) == {s} \cup UNION {Subtree(children[s][i]) : i \in 1..Len(children[s])}

\* C24: after a resolve on the root every scheduler in the tree has an empty
\* queue and a clear flag.
C24_RootResolveCleansTree ==
    (last.call = "resolve" /\ last.sched = Root /\ ~panicked) =>
        \A v \in Subtree(Root) : queue[v] = <<>> /\ ~flags[v]

\* ----- C25 -----
\* the larger of two f32 values, NaN when either is NaN
FMax(a, b) == IF a.c = "nan" \/ b.c = "nan" THEN NaN ELSE IF FLt(a, b) THEN b ELSE a

\* the last call was ExtentUpdateSingle::get / ExtentUpdate::get
SingleCalled == last.call = "get_single"
NumCalled == last.call = "get_num"

\* the axis rule the last ExtentUpdateSingle::get was called on, and the raw
\* position and size of its shape
LastSingle == desc[last.view][last.axis]
LastRaw ==
    ExtentUpdateType_get_num(LastSingle.extent_type, IF last.axis = "x" THEN "X" ELSE "Y",
                             last.siblings, last.parent_ratio, last.other_size)

NotNegative(a) == a.c # "nan" /\ ~FLt(a, F(0))

\* C26: the size the axis pipeline returns is >= 0 for every shape and every
\* scale and offset, and so are the w and h of an evaluated descriptor.
C26_SizeNotNegative ==
    /\ SingleCalled => NotNegative(last.result[2])
    /\ NumCalled => NotNegative(last.result.w) /\ NotNegative(last.result.h)

\* ----- C27 -----
\* the axis rules of the descriptor the last ExtentUpdate::get evaluated
LastDesc == desc[last.view]
IsRatio(single) == single.extent_type.tag = "Ratio"

\* the size of a Ratio axis whose raw size is other / comp
RatioAxisSize(single, other, comp) ==
    FMax(F(0), FAdd(FMul(FDiv(other, comp), single.scale_rel), single.scale_abs))

\* the axis is evaluated on its own: whatever size the other axis is given
\* as, its position and size are pos and size
EvaluatedAlone(axis, dim, pos, size) ==
    \A o \in OtherSizes \cup {F(0)} :
        ExtentUpdateSingle_get_num(LastDesc[axis], dim, last.siblings, last.parent_ratio, o)
            = <<pos, size>>

\* C27: with one Ratio axis the other axis is evaluated first, and the raw
\* size of the Ratio axis is the resolved size of the other axis divided by
\* w/h of the parent when the Ratio axis is X and by h/w when it is Y; with
\* no Ratio axis X is evaluated first, neither axis using the other.
C27_RatioAxisUsesResolvedOther ==
    NumCalled =>
        \A p \in ParentSizes :
            last.parent_ratio = Ratio_new(F(p[1]), F(p[2])) =>
                /\ IsRatio(LastDesc.x) /\ ~IsRatio(LastDesc.y) =>
                      /\ EvaluatedAlone("y", "Y", last.result.y, last.result.h)
                      /\ last.result.w =
                            RatioAxisSize(LastDesc.x, last.result.h, Fr(p[1], p[2]))
                /\ IsRatio(LastDesc.y) /\ ~IsRatio(LastDesc.x) =>
                      /\ EvaluatedAlone("x", "X", last.result.x, last.result.w)
                      /\ last.result.h =
                            RatioAxisSize(LastDesc.y, last.result.w, Fr(p[2], p[1]))
                /\ ~IsRatio(LastDesc.x) /\ ~IsRatio(LastDesc.y) =>
                      /\ EvaluatedAlone("x", "X", last.result.x, last.result.w)
                      /\ EvaluatedAlone("y", "Y", last.result.y, last.result.h)

\* under a parent of ratio 1/4 a descriptor whose X is a Ratio and whose Y
\* resolves to the size 5 has been evaluated: w is 5 / (1/4) = 20
C27_Witness ==
    /\ NumCalled
    /\ IsRatio(LastDesc.x) /\ ~IsRatio(LastDesc.y)
    /\ LastDesc.x.scale_rel = F(1) /\ LastDesc.x.scale_abs = F(0)
    /\ last.parent_ratio = Ratio_new(F(1), F(4))
    /\ last.result.h = F(5) /\ last.result.w = F(20)

\* ----- C28 -----
\* the sibling a reference names in the list of the last evaluation, and its
\* (position, size) on the axis that was asked for
SiblingOf(r) ==
    IF r.tag = "Prev" THEN last.siblings[Len(last.siblings)] ELSE last.siblings[r.id + 1]
OnAxis(view) == IF last.axis = "x" THEN <<view.x, view.w>> ELSE <<view.y, view.h>>

\* the pipeline of the axis changes nothing
PlainPipeline(single) ==
    /\ single.scale_rel = F(1) /\ single.scale_abs = F(0)
    /\ single.offset_rel = F(0) /\ single.offset_abs = F(0)

\* the last evaluation was of a Locate anchored on one sibling and as large
\* as another one, with a plain pipeline
AnchoredRelative ==
    /\ SingleCalled
    /\ PlainPipeline(LastSingle)
    /\ LastSingle.extent_type.tag = "Locate"
    /\ LastSingle.extent_type.val.pos.tag = "Anchor"
    /\ LastSingle.extent_type.val.size.tag = "Relative"

\* C28: against a non-empty list of older siblings Prev is the (position,
\* size) of the last element and Id(n) that of element n, on the axis asked
\* for: an anchor lies at position + ref_point * size of its sibling, a
\* Relative size is the size of its sibling.
C28_PrevIsLastIdIsNth ==
    AnchoredRelative =>
        LET anchor == LastSingle.extent_type.val.pos.val
            at == OnAxis(SiblingOf(anchor.ref_view))
            like == OnAxis(SiblingOf(LastSingle.extent_type.val.size.val))
        IN  last.result = <<FAdd(at[1], FMul(anchor.ref_point, at[2])), like[2]>>

\* with two older siblings a Y axis anchored on Prev and as large as Id(0)
\* has been evaluated: it lies at 6 + 8/2 and has the height 4
C28_Witness ==
    /\ AnchoredRelative
    /\ last.axis = "y"
    /\ last.siblings = <<Sibling1, Sibling2>>
    /\ LastSingle.extent_type.val.pos.val.ref_view = Prev
    /\ LastSingle.extent_type.val.size.val = Id(0)
    /\ last.result = <<F(10), F(4)>>

\* ----- C29 -----
\* a <= b
FLe(a, b) == a.c # "nan" /\ b.c # "nan" /\ (a = b \/ FLt(a, b))

\* an extent has just been built / contained has just been asked
ExtentBuilt == last.call \in {"from_size", "from_span"}
ContainedCalled == last.call = "contained"

\* C29: an Extent built by from_size or from_span has no far edge below its
\* near edge, a negative width or height at a position that is a number
\* having become 0, and contained(x, y) holds exactly when x1 <= x < x2 and
\* y1 <= y < y2, so that an extent of no width or no height contains nothing.
C29_ExtentEdgesAndContained ==
    /\ ExtentBuilt =>
          /\ ~FLt(last.extent.x2, last.extent.x1)
          /\ ~FLt(last.extent.y2, last.extent.y1)
    /\ last.call = "from_size" =>
          /\ last.args[1].c = "num" /\ FLt(last.args[3], F(0)) =>
                FSub(last.extent.x2, last.extent.x1) = F(0)
          /\ last.args[2].c = "num" /\ FLt(last.args[4], F(0)) =>
                FSub(last.extent.y2, last.extent.y1) = F(0)
    /\ last.call = "from_span" =>
          /\ FLt(last.args[3], last.args[1]) => last.extent.x2 = last.extent.x1
          /\ FLt(last.args[4], last.args[2]) => last.extent.y2 = last.extent.y1
    /\ ContainedCalled =>
          /\ last.result <=>
                /\ FLe(last.extent.x1, last.x) /\ FLt(last.x, last.extent.x2)
                /\ FLe(last.extent.y1, last.y) /\ FLt(last.y, last.extent.y2)
          /\ (last.extent.x1 = last.extent.x2 \/ last.extent.y1 = last.extent.y2) =>
                ~last.result

\* contained has been asked of the extent (0, 0)..(2, 2) for the point (2, 0)
\* on its far edge and has answered no
C29_Witness ==
    /\ ContainedCalled
    /\ last.extent = [x1 |-> F(0), y1 |-> F(0), x2 |-> F(2), y2 |-> F(2)]
    /\ last.x = F(2) /\ last.y = F(0)
    /\ ~last.result

\* ----- C30 -----
\* the log of the running loop
LoopLog == IF last.call = "run" THEN last.log ELSE <<>>

\* the places of the log where an event was delivered, and what the loop did
\* for the event delivered at place i: the entries up to the next delivery
Deliveries == {i \in 1..Len(LoopLog) : LoopLog[i][1] = "event"}
DoneFor(i) ==
    {j \in (i + 1)..Len(LoopLog) :
        \A k \in (i + 1)..j : LoopLog[k][1] # "event"}
UpdatesFor(i) == {j \in DoneFor(i) : LoopLog[j] = UpdateInvoked}
HandlersFor(i) == {j \in DoneFor(i) : LoopLog[j][1] = "handler"}

MoveCalled == last.call = "update_move"

\* n lies strictly between a and b, whichever is the larger
StrictlyBetween(n, a, b) == (a < n /\ n < b) \/ (b < n /\ n < a)

\* C31: update_move(from, to) turns Id(from) into Id(to), moves every Id
\* strictly between from and to by one toward from, and leaves every Prev and
\* every Id outside the closed range between from and to as it was, in every
\* slot of both axes.
C31_UpdateMoveRewrites ==
    MoveCalled =>
        LET before == DescRefs(last.before)
            after == DescRefs(desc[last.view])
            from == last.from
            to == last.to
        IN  /\ Len(after) = Len(before)
            /\ \A k \in 1..Len(before) :
                   /\ before[k] = Prev => after[k] = Prev
                   /\ before[k] = Id(from) => after[k] = Id(to)
                   /\ before[k].tag = "Id" /\ StrictlyBetween(before[k].id, from, to) =>
                         after[k] = Id(before[k].id + (IF from > to THEN 1 ELSE -1))
                   /\ before[k].tag = "Id" /\ before[k].id # from /\ before[k].id # to
                         /\ ~StrictlyBetween(before[k].id, from, to) =>
                         after[k] = before[k]

\* update_move(2, 0) has been applied to a descriptor that held Id(1), which
\* lies strictly between, and now holds Id(2) in its place
C31_Witness ==
    /\ MoveCalled
    /\ last.from = 2 /\ last.to = 0
    /\ \E k \in 1..Len(DescRefs(last.before)) :
          /\ DescRefs(last.before)[k] = Id(1)
          /\ DescRefs(desc[last.view])[k] = Id(2)

\* ----- C32 -----
\* the step is a resolve call
ResolveStep == last'.call = "resolve"

\* the child list of s when the drain reaches the i-th queued operation
ListAt(s, i) == Drain(children[s], SubSeq(queue[s], 1, i - 1), <<>>)

\* the queued operations of s that are a Move the drain reaches with both
\* indices inside the child list
MovesInRange(s) ==
    {i \in 1..Len(queue[s]) :
        /\ queue[s][i].tag = "Move"
        /\ ~ListAt(s, i).panic
        /\ queue[s][i].from < Len(ListAt(s, i).list)
        /\ queue[s][i].to < Len(ListAt(s, i).list)}

\* C32: when resolve applies Move(from, to) to a child list of length n with
\* from, to < n, the child that was at index from is at index to afterwards,
\* the list is as long as before and the other children keep their order.
C32_ResolveMovePlacesChild ==
    [][ResolveStep =>
          \A i \in MovesInRange(last'.sched) :
              LET s == last'.sched
                  op == queue[s][i]
                  before == ListAt(s, i).list
                  after == ListAt(s, i + 1)
              IN  /\ ~after.panic
                  /\ Len(after.list) = Len(before)
                  /\ after.list[op.to + 1] = before[op.from + 1]
                  /\ VecRemove(after.list, op.to) = VecRemove(before, op.from)
                  /\ (i = Len(queue[s]) /\ ~panicked') => children'[s] = after.list]_vars

\* a resolve has applied a Move to another index and left the younger of two
\* children in front of the older one
C32_Witness ==
    /\ last.call = "resolve" /\ ~panicked
    /\ \E i \in 1..Len(last.applied[last.sched]) :
          /\ last.applied[last.sched][i].tag = "Move"
          /\ last.applied[last.sched][i].from # last.applied[last.sched][i].to
    /\ Len(children[last.sched]) >= 2
    /\ children[last.sched][1] > children[last.sched][2]

\* ----- C33 -----
\* the last call was check_id / check_id_range
CheckIdCalled == last.call = "check_id"
CheckIdRangeCalled == last.call = "check_id_range"

C34_CheckIdRangeIsSomeCheckId ==
    CheckIdRangeCalled =>
        /\ last.result <=>
              \E id \in 0..(MaxRefId + 1) :
                  /\ last.a <= id /\ id < last.b
                  /\ ExtentUpdate_check_id(desc[last.view], id)
        /\ last.a >= last.b => ~last.result
        /\ (\A k \in 1..Len(DescRefs(desc[last.view])) :
               DescRefs(desc[last.view])[k] = Prev) => ~last.result

\* check_id_range(1..2) has answered yes for a descriptor that holds Id(1)
\* in the second position of a Stretch and does not hold Id(0)
C34_Witness ==
    /\ CheckIdRangeCalled /\ last.a = 1 /\ last.b = 2 /\ last.result
    /\ \E e \in {desc[last.view].x.extent_type, desc[last.view].y.extent_type} :
          /\ e.tag = "Stretch"
          /\ e.val.pos2 = Anchor(Id(1))
          /\ e.val.pos1 # Anchor(Id(1))
    /\ ~HoldsId(desc[last.view], 0)

\* ----- C35 -----
\* the proper ancestors of s a notification sent by a push on s reaches: the
\* parent, and each further one as long as the ones before it had a clear flag
Reached(s) ==
    {a \in Ancestors(s) :
        \A b \in Ancestors(s) \ ({a} \cup Ancestors(a)) : ~flags[b]}

\* C35: a notification that reaches a scheduler whose flag is set changes
\* nothing and goes no further: an accepted push sets the flags of the
\* ancestors up to the first one whose flag was set and leaves every other
\* flag, those above it included, as it was.  A flag is set by nothing but a
\* push and cleared by nothing but a resolve, so that between two resolves
\* it is set, and its scheduler tells its parent, at most once.
C35_SetFlagStopsNotification ==
    [][/\ AcceptedStep =>
             \A v \in Views :
                 flags'[v] = (flags[v] \/ v \in Reached(last'.sched))
       /\ (\E v \in Views : ~flags[v] /\ flags'[v]) => AcceptedStep
       /\ (\E v \in Views : flags[v] /\ ~flags'[v]) => ResolveStep]_vars

\* a push has been accepted on a scheduler whose parent has its flag set
\* while the flag of the root above it is clear: the notification stopped at
\* the parent
C35_Witness ==
    /\ last.call = "push" /\ last.result.kind = "Ok"
    /\ parent[last.sched] # NoParent
    /\ parent[parent[last.sched]] = Root
    /\ flags[parent[last.sched]]
    /\ ~flags[Root]

\* ----- C36 -----
\* the step is a push_operation of a Move of the first sibling to a later
\* index inside the handle list
FirstMovedForwardStep ==
    /\ PushStep /\ last'.op.tag = "Move"
    /\ last'.op.from = 0 /\ 0 < last'.op.to
    /\ last'.op.to < Len(handles[last'.sched])

\* C36: Move(0, to) with 0 < to < n is rejected with NoPrev(1) when the
\* handle at index 1 references Prev, and so no accepted forward move of the
\* first sibling makes a view that references Prev the first child.
C36_ForwardMoveOfFirstKeepsPrevBehind ==
    [][FirstMovedForwardStep =>
          /\ HoldsPrev(desc[handles[last'.sched][2]]) =>
                last'.result = Err([tag |-> "NoPrev", a |-> 1])
          /\ (last'.result.kind = "Ok" /\ ~ProjectedNext(last'.sched).panic) =>
                ~HoldsPrev(desc'[ProjectedNext(last'.sched).list[1]])]_vars

\* ----- C37 -----
\* the step is a push_operation of Move(p, p) with p inside the handle list
MoveInPlaceStep ==
    /\ PushStep /\ last'.op.tag = "Move"
    /\ last'.op.from = last'.op.to
    /\ last'.op.from < Len(handles[last'.sched])

\* C37: Move(p, p) with p < n is accepted, changes no reference of any handle
\* and not the order of the handle list, and leaves the child list as it
\* was when it is resolved.
C37_MoveInPlaceChangesNothing ==
    [][MoveInPlaceStep =>
          /\ last'.result = Ok
          /\ desc' = desc
          /\ handles' = handles
          /\ ~Projected(last'.sched).panic =>
                /\ ~ProjectedNext(last'.sched).panic
                /\ ProjectedNext(last'.sched).list = Projected(last'.sched).list]_vars

\* ----- C38 -----
\* the reference invariant on the handle list of s with the descriptors d:
\* the handle at index i references only Id(n) with n < i
ReferencesEarlier(s, d) ==
    \A i \in 0..(Len(handles[s]) - 1) :
        \A k \in 1..Len(DescRefs(d[handles[s][i + 1]])) :
            DescRefs(d[handles[s][i + 1]])[k].tag = "Id" =>
                DescRefs(d[handles[s][i + 1]])[k].id < i

\* the index rewrite of an operation on one descriptor
Rewrite(op, e) ==
    CASE op.tag = "Insert" -> ExtentUpdate_update_insert(e, op.pos)
      [] op.tag = "Move" -> ExtentUpdate_update_move(e, op.from, op.to)
      [] op.tag = "Delete" -> ExtentUpdate_update_delete(e, op.pos)

\* the step is an accepted Insert below the end, Move or Delete
RewritingStep ==
    /\ AcceptedStep
    /\ \/ last'.op.tag = "Insert" /\ last'.op.pos < Len(handles[last'.sched])
       \/ last'.op.tag \in {"Move", "Delete"}

\* C38: when every handle references only earlier indices, the rewrite the
\* scheduler applies to the handles after pos (Insert, Delete) or after
\* min(from, to) (Move) leaves every handle with the references the rewrite
\* applied to every handle gives it.
C38_PartialRewriteIsFullRewrite ==
    [][(RewritingStep /\ ReferencesEarlier(last'.sched, desc)) =>
          \A i \in 1..Len(handles[last'.sched]) :
              desc'[handles[last'.sched][i]] =
                  Rewrite(last'.op, desc[handles[last'.sched][i]])]_vars

\* a Move has been accepted on a handle list whose references all pointed
\* to earlier indices, and has rewritten a reference of some handle
C38_Witness ==
    /\ last.call = "push" /\ last.result.kind = "Ok" /\ last.op.tag = "Move"
    /\ ReferencesEarlier(last.sched, last.before)
    /\ \E i \in 1..Len(handles[last.sched]) :
          desc[handles[last.sched][i]] # last.before[handles[last.sched][i]]

\* ----- C39 -----
\* C39: after get_extent_update_info on the updater of a view, the view has
\* UPDATE_EXTENT_SELF, every ancestor view up to and including the root has
\* UPDATE_EXTENT_CHILD, and the view has UPDATE_EXTENT_CHILD only if it had
\* it before the call.
C39_SelfOnViewChildOnAncestors ==
    last.call = "get_extent_update_info" =>
        /\ UPDATE_EXTENT_SELF \in last.update_flags[last.view]
        /\ \A a \in Ancestors(last.view) : UPDATE_EXTENT_CHILD \in last.update_flags[a]
        /\ UPDATE_EXTENT_CHILD \in last.update_flags[last.view] =>
              UPDATE_EXTENT_CHILD \in last.before[last.view]

====
